---- MODULE Spec2Model ----
(***************************************************************************)
(* Workflow orchestration core of the jarvis agent: registry validation,   *)
(* dataflow resolution, make-style freshness and the wave scheduler of     *)
(* WorkflowOrchestrator, as a state machine.                               *)
(*                                                                         *)
(* Strings that carry templates (paths, slot names, slot values) are       *)
(* sequences over an alphabet whose letters are the template markers       *)
(* "${", "}", "inputs.", "outputs." and atomic pieces of literal text.     *)
(* Task ids and workflow ids are only compared for equality and are plain  *)
(* values.                                                                 *)
(***************************************************************************)
EXTENDS Integers, Sequences, FiniteSets, TLC

VARIABLES
    m_Workflows,     \* WorkflowRegistry::m_Workflows: workflow id -> WorkflowDefinition
    validateResult,  \* outcome of ValidateAll in InitializeWorkflows: "none", "true", "false", "throws"
    m_LastRuns,      \* WorkflowOrchestrator::m_LastRuns: workflow id -> WorkflowRun
    run,             \* the WorkflowRun local to the RunWorkflowOnce call in progress
    pc,              \* position of the driver thread
    iterOrder,       \* iteration order of workflowRun.m_TaskStates (unordered_map) in this run
    scanIdx,         \* position of the readiness scan in iterOrder
    readyTasks,      \* ExecuteOneReadyWave: readyTasks vector (task ids)
    futures,         \* ExecuteOneReadyWave: futures vector (task ids, in submission order)
    joinIdx,         \* position of the join loop in futures
    madeProgress,    \* outMadeProgress of the wave in progress
    worker,          \* per task: position of the pool worker running ExecuteTaskInstance
    mtime,           \* file system: path -> last write time, 0 = the file does not exist
    clock,           \* wall clock used for the write times of files produced by executors
    waveNo,          \* number of ExecuteOneReadyWave calls of the run in progress
    waveOf,          \* per task: the wave in which it was submitted (0 = never)
    callCount,       \* number of RunWorkflowOnce calls so far
    lastCall,        \* record of the most recent RunWorkflowOnce call and its return value
    probe,           \* record of the most recent direct call of a helper function and its result
    m_CronTriggers,      \* TriggerEngine: vector of CronTriggerInstance
    m_FileWatchTriggers, \* TriggerEngine: vector of FileWatchTriggerInstance
    m_ManualTriggers,    \* TriggerEngine: vector of ManualTriggerInstance
    m_FileWatchIndex,    \* TriggerEngine: path -> positions in m_FileWatchTriggers
    fired                \* the TriggerFiredEvents handed to m_TriggerCallback so far, in order

vars == <<m_Workflows, validateResult, m_LastRuns, run, pc, iterOrder, scanIdx, readyTasks,
          futures, joinIdx, madeProgress, worker, mtime, clock, waveNo, waveOf, callCount,
          lastCall, probe, m_CronTriggers, m_FileWatchTriggers, m_ManualTriggers,
          m_FileWatchIndex, fired>>

\* the state of the trigger engine and the log of its callback
triggerVars == <<m_CronTriggers, m_FileWatchTriggers, m_ManualTriggers, m_FileWatchIndex, fired>>

-----------------------------------------------------------------------------
(* Bounds of the model *)

MaxRuns == 2     \* RunWorkflowOnce calls in one behaviour
MaxTime == 3     \* largest file time

-----------------------------------------------------------------------------
(* Generic helpers *)

EmptyMap == [k \in {} |-> <<>>]

MapPut(m, k, v) == [x \in (DOMAIN m) \cup {k} |-> IF x = k THEN v ELSE m[x]]

Range(s) == {s[i] : i \in 1..Len(s)}

SetMax(S) == CHOOSE x \in S : \A y \in S : y <= x

SetMin(S) == CHOOSE x \in S : \A y \in S : x <= y

\* all orders in which a finite set can be enumerated
Orders(S) == {s \in [1..Cardinality(S) -> S] : \A i, j \in 1..Cardinality(S) : i # j => s[i] # s[j]}

\* std::string::find of a one-letter pattern, from position pos (1-based); 0 = npos
RECURSIVE FindTok(_, _, _)
FindTok(s, tok, pos) ==
    IF pos > Len(s) THEN 0
    ELSE IF s[pos] = tok THEN pos
    ELSE FindTok(s, tok, pos + 1)

\* std::string::find of a two-letter pattern
RECURSIVE FindTok2(_, _, _, _)
FindTok2(s, t1, t2, pos) ==
    IF pos + 1 > Len(s) THEN 0
    ELSE IF s[pos] = t1 /\ s[pos + 1] = t2 THEN pos
    ELSE FindTok2(s, t1, t2, pos + 1)

\* byte-wise order of the literal pieces used as slot names (std::sort on std::string)
AtomOrder == <<"binary", "obj", "object", "rows", "section_text", "x", "y">>

AtomRank(a) == IF \E i \in 1..Len(AtomOrder) : AtomOrder[i] = a
               THEN CHOOSE i \in 1..Len(AtomOrder) : AtomOrder[i] = a
               ELSE Len(AtomOrder) + 1

\* operator< of std::string on slot names
RECURSIVE StrLess(_, _)
StrLess(a, b) ==
    IF Len(b) = 0 THEN FALSE
    ELSE IF Len(a) = 0 THEN TRUE
    ELSE IF AtomRank(a[1]) < AtomRank(b[1]) THEN TRUE
    ELSE IF AtomRank(b[1]) < AtomRank(a[1]) THEN FALSE
    ELSE StrLess(Tail(a), Tail(b))

\* std::sort of a set of distinct strings, ascending
SortAsc(S) == CHOOSE s \in Orders(S) : \A i, j \in 1..Cardinality(S) : i < j => StrLess(s[i], s[j])

-----------------------------------------------------------------------------
(* Task and run states (workflowTypes.h) *)

Pending == "Pending"
Ready == "Ready"
Running == "Running"
Skipped == "Skipped"
Succeeded == "Succeeded"
Failed == "Failed"

Terminal == {Succeeded, Skipped, Failed}

TaskInstanceStateKind == {Pending, Ready, Running, Skipped, Succeeded, Failed}

TaskInstanceState == [m_State |-> Pending, m_AttemptCount |-> 0, m_LastErrorMessage |-> "",
                      m_InputValues |-> EmptyMap, m_OutputValues |-> EmptyMap]

\* m_State is the WorkflowRunState of the run; no code of the repository assigns it
WorkflowRun == [m_RunId |-> "", m_WorkflowId |-> "", m_State |-> "Pending",
                m_TaskStates |-> EmptyMap, m_IsCompleted |-> FALSE, m_HasFailed |-> FALSE]

-----------------------------------------------------------------------------
(* Template resolution for freshness paths (workflowOrchestrator.cpp) *)

RECURSIVE ResolveTemplateLoop(_, _, _, _, _)
ResolveTemplateLoop(value, pos, acc, inputValues, outputValues) ==
    IF pos > Len(value) THEN [ok |-> TRUE, out |-> acc]
    ELSE
      LET dollar == FindTok(value, "${", pos) IN
      IF dollar = 0 THEN [ok |-> TRUE, out |-> acc \o SubSeq(value, pos, Len(value))]
      ELSE
        LET acc2 == acc \o SubSeq(value, pos, dollar - 1)
            close == FindTok(value, "}", dollar + 1)
        IN
        IF close = 0 THEN [ok |-> FALSE, out |-> acc2]
        ELSE
          LET token == SubSeq(value, dollar + 1, close - 1) IN
          IF Len(token) >= 1 /\ token[1] = "inputs."
          THEN IF Tail(token) \notin DOMAIN inputValues
               THEN [ok |-> FALSE, out |-> acc2]
               ELSE ResolveTemplateLoop(value, close + 1, acc2 \o inputValues[Tail(token)],
                                        inputValues, outputValues)
          ELSE IF Len(token) >= 1 /\ token[1] = "outputs."
          THEN IF Tail(token) \notin DOMAIN outputValues
               THEN [ok |-> FALSE, out |-> acc2]
               ELSE ResolveTemplateLoop(value, close + 1, acc2 \o outputValues[Tail(token)],
                                        inputValues, outputValues)
          ELSE [ok |-> FALSE, out |-> acc2]

ResolveTemplateString(value, inputValues, outputValues) ==
    LET Checked(r) == IF ~r.ok THEN r
                      ELSE IF FindTok(r.out, "${", 1) # 0 THEN [ok |-> FALSE, out |-> r.out]
                      ELSE r
    IN Checked(ResolveTemplateLoop(value, 1, <<>>, inputValues, outputValues))

RECURSIVE ResolveTemplatePathLoop(_, _, _, _, _)
ResolveTemplatePathLoop(templates, i, acc, inputValues, outputValues) ==
    IF i > Len(templates) THEN [ok |-> TRUE, paths |-> acc]
    ELSE
      LET t == templates[i]
          Rest(r) ==
              IF ~r.ok
              THEN IF FindTok(t, "${", 1) = 0
                   THEN ResolveTemplatePathLoop(templates, i + 1, Append(acc, t), inputValues,
                                                outputValues)
                   ELSE [ok |-> FALSE, paths |-> acc]
              ELSE IF r.out = <<>> THEN [ok |-> FALSE, paths |-> acc]
              ELSE ResolveTemplatePathLoop(templates, i + 1, Append(acc, r.out), inputValues,
                                           outputValues)
      IN Rest(ResolveTemplateString(t, inputValues, outputValues))

ResolveTemplatePathList(templates, inputValues, outputValues) ==
    ResolveTemplatePathLoop(templates, 1, <<>>, inputValues, outputValues)

-----------------------------------------------------------------------------
(* DataflowResolver (dataflowResolver.cpp) *)

RECURSIVE TryResolveEdgeLoop(_, _, _, _, _)
TryResolveEdgeLoop(wf, taskStates, targetTaskId, targetInputName, i) ==
    IF i > Len(wf.m_Dataflows) THEN [ok |-> FALSE, val |-> <<>>]
    ELSE
      LET e == wf.m_Dataflows[i] IN
      IF e.m_ToTask # targetTaskId \/ e.m_ToInput # targetInputName
      THEN TryResolveEdgeLoop(wf, taskStates, targetTaskId, targetInputName, i + 1)
      ELSE IF e.m_FromTask \notin DOMAIN taskStates THEN [ok |-> FALSE, val |-> <<>>]
      ELSE IF e.m_FromOutput \notin DOMAIN taskStates[e.m_FromTask].m_OutputValues
           THEN [ok |-> FALSE, val |-> <<>>]
      ELSE [ok |-> TRUE, val |-> taskStates[e.m_FromTask].m_OutputValues[e.m_FromOutput]]

\* variant of TryResolveFromDataflowEdges that falls back to a later matching edge when
\* an earlier one has no value
TryResolveFromAnyEdge(wf, taskStates, targetTaskId, targetInputName) ==
    LET Good(i) ==
            /\ wf.m_Dataflows[i].m_ToTask = targetTaskId
            /\ wf.m_Dataflows[i].m_ToInput = targetInputName
            /\ wf.m_Dataflows[i].m_FromTask \in DOMAIN taskStates
            /\ wf.m_Dataflows[i].m_FromOutput
                  \in DOMAIN taskStates[wf.m_Dataflows[i].m_FromTask].m_OutputValues
    IN IF \E i \in 1..Len(wf.m_Dataflows) : Good(i)
       THEN LET i == SetMin({j \in 1..Len(wf.m_Dataflows) : Good(j)})
            IN [ok |-> TRUE,
                val |-> taskStates[wf.m_Dataflows[i].m_FromTask].m_OutputValues[
                            wf.m_Dataflows[i].m_FromOutput]]
       ELSE [ok |-> FALSE, val |-> <<>>]

TryResolveFromDataflowEdges(wf, taskStates, targetTaskId, targetInputName) ==
    TryResolveEdgeLoop(wf, taskStates, targetTaskId, targetInputName, 1)

RECURSIVE ExpandTemplatesLoop(_, _, _, _)
ExpandTemplatesLoop(rawValue, currentIndex, acc, inputValues) ==
    IF currentIndex > Len(rawValue) THEN [ok |-> TRUE, out |-> acc]
    ELSE
      LET startIndex == FindTok2(rawValue, "${", "inputs.", currentIndex) IN
      IF startIndex = 0
      THEN [ok |-> TRUE, out |-> acc \o SubSeq(rawValue, currentIndex, Len(rawValue))]
      ELSE
        LET acc2 == acc \o SubSeq(rawValue, currentIndex, startIndex - 1)
            closeBraceIndex == FindTok(rawValue, "}", startIndex + 1)
        IN
        IF closeBraceIndex = 0 THEN [ok |-> FALSE, out |-> acc2]
        ELSE
          LET key == SubSeq(rawValue, startIndex + 2, closeBraceIndex - 1) IN
          IF key \notin DOMAIN inputValues THEN [ok |-> FALSE, out |-> acc2]
          ELSE ExpandTemplatesLoop(rawValue, closeBraceIndex + 1, acc2 \o inputValues[key],
                                   inputValues)

ExpandTemplates(rawValue, inputValues) == ExpandTemplatesLoop(rawValue, 1, <<>>, inputValues)

\* step 2 of ResolveInputsForTask: the values are rewritten in place, in the iteration
\* order ord of the map of resolved values
RECURSIVE ExpandAllLoop(_, _, _)
ExpandAllLoop(values, ord, i) ==
    IF i > Len(ord) THEN [ok |-> TRUE, vals |-> values]
    ELSE
      LET Rest(r) == IF ~r.ok THEN [ok |-> FALSE, vals |-> EmptyMap]
                     ELSE ExpandAllLoop([values EXCEPT ![ord[i]] = r.out], ord, i + 1)
      IN Rest(ExpandTemplates(values[ord[i]], values))

ResolveInputsForTask(wf, taskStates, taskDefinition, taskId, ord) ==
    LET names == DOMAIN taskDefinition.m_Inputs
        Rest(res) == IF \E n \in names : ~res[n].ok THEN [ok |-> FALSE, vals |-> EmptyMap]
                     ELSE ExpandAllLoop([n \in names |-> res[n].val], ord, 1)
    IN Rest([n \in names |-> TryResolveFromDataflowEdges(wf, taskStates, taskId, n)])

\* the iteration orders of the input-slot maps of the tasks of a workflow
RECURSIVE InputOrdersOf(_, _)
InputOrdersOf(wf, ids) ==
    IF ids = {} THEN {EmptyMap}
    ELSE LET t == CHOOSE x \in ids : TRUE IN
         {MapPut(f, t, o) : f \in InputOrdersOf(wf, ids \ {t}),
                            o \in Orders(DOMAIN wf.m_Tasks[t].m_Inputs)}

InputOrders(wf) == InputOrdersOf(wf, DOMAIN wf.m_Tasks)

-----------------------------------------------------------------------------
(* Freshness paths and the freshness checker *)

HasTemplatePrefix(values) == \E i \in 1..Len(values) : FindTok2(values[i], "${", "inputs.", 1) # 0

ResolveFreshnessPathsForTask(wf, taskStates, taskDefinition, taskId, ord) ==
    LET outputValues == IF taskId \in DOMAIN taskStates THEN taskStates[taskId].m_OutputValues
                        ELSE EmptyMap
        Paths(ins, outs) ==
            IF ~ins.ok THEN [ok |-> FALSE, ins |-> <<>>, outs |-> <<>>]
            ELSE IF ~outs.ok THEN [ok |-> FALSE, ins |-> <<>>, outs |-> <<>>]
            ELSE [ok |-> TRUE, ins |-> ins.paths, outs |-> outs.paths]
        With(inputValues) ==
            Paths(ResolveTemplatePathList(taskDefinition.m_FileInputs, inputValues, outputValues),
                  ResolveTemplatePathList(taskDefinition.m_FileOutputs, inputValues, outputValues))
        Resolved(r) == IF ~r.ok THEN [ok |-> FALSE, ins |-> <<>>, outs |-> <<>>]
                       ELSE With(r.vals)
    IN
    IF HasTemplatePrefix(taskDefinition.m_FileInputs) \/ HasTemplatePrefix(taskDefinition.m_FileOutputs)
    THEN Resolved(ResolveInputsForTask(wf, taskStates, taskDefinition, taskId, ord))
    ELSE With(EmptyMap)

\* fs::exists
Exists(mt, p) == p \in DOMAIN mt /\ mt[p] > 0

\* the resolveUpstreamOutputs lambda of ExecuteOneReadyWave
ResolveUpstreamOutputs(wf, taskStates, ords, upstreamTaskId) ==
    IF upstreamTaskId \notin DOMAIN wf.m_Tasks THEN [ok |-> FALSE, outs |-> <<>>]
    ELSE LET Outs(r) == [ok |-> r.ok, outs |-> r.outs]
         IN Outs(ResolveFreshnessPathsForTask(wf, taskStates, wf.m_Tasks[upstreamTaskId],
                                              upstreamTaskId, ords[upstreamTaskId]))

RECURSIVE CollectUpstreamOutputTimes(_, _, _, _, _, _, _)
RECURSIVE CollectDependencyLoop(_, _, _, _, _, _, _, _)
CollectUpstreamOutputTimes(wf, taskStates, ords, mt, taskId, visitedTasks, outTimes) ==
    IF taskId \in visitedTasks THEN [ok |-> TRUE, visited |-> visitedTasks, times |-> outTimes]
    ELSE
      LET v1 == visitedTasks \cup {taskId} IN
      IF taskId \notin DOMAIN wf.m_Tasks THEN [ok |-> FALSE, visited |-> v1, times |-> outTimes]
      ELSE
        LET Own(d, own) ==
                IF ~own.ok THEN [d EXCEPT !.ok = FALSE]
                ELSE IF \E p \in Range(own.outs) : ~Exists(mt, p) THEN [d EXCEPT !.ok = FALSE]
                ELSE [ok |-> TRUE, visited |-> d.visited,
                      times |-> d.times \cup {mt[p] : p \in Range(own.outs)}]
            Rest(d) == IF ~d.ok THEN d
                       ELSE Own(d, ResolveUpstreamOutputs(wf, taskStates, ords, taskId))
        IN Rest(CollectDependencyLoop(wf, taskStates, ords, mt, wf.m_Tasks[taskId].m_DependsOn,
                                      1, v1, outTimes))

CollectDependencyLoop(wf, taskStates, ords, mt, deps, i, visitedTasks, outTimes) ==
    IF i > Len(deps) THEN [ok |-> TRUE, visited |-> visitedTasks, times |-> outTimes]
    ELSE
      LET Rest(r) == IF ~r.ok THEN r
                     ELSE CollectDependencyLoop(wf, taskStates, ords, mt, deps, i + 1, r.visited,
                                                r.times)
      IN Rest(CollectUpstreamOutputTimes(wf, taskStates, ords, mt, deps[i], visitedTasks, outTimes))

\* variant of IsTaskUpToDate that compares no write times: up to date as soon as every
\* file exists
IsTaskUpToDateExistenceOnly(wf, taskStates, ords, mt, taskId, inputPaths, outputPaths) ==
    /\ outputPaths # <<>>
    /\ \A p \in Range(inputPaths) \cup Range(outputPaths) : Exists(mt, p)

IsTaskUpToDate(wf, taskStates, ords, mt, taskId, inputPaths, outputPaths) ==
    IF outputPaths = <<>> THEN FALSE
    ELSE IF \E p \in Range(inputPaths) : ~Exists(mt, p) THEN FALSE
    ELSE
      LET Compare(inputTimes) ==
              IF inputTimes = {} THEN FALSE
              ELSE IF \E p \in Range(outputPaths) : ~Exists(mt, p) THEN FALSE
              ELSE SetMin({mt[p] : p \in Range(outputPaths)}) >= SetMax(inputTimes)
          Rest(up) == IF ~up.ok THEN FALSE
                      ELSE Compare({mt[p] : p \in Range(inputPaths)} \cup up.times)
      IN Rest(CollectUpstreamOutputTimes(wf, taskStates, ords, mt, taskId, {}, {}))

\* the freshness decision of the readiness scan
IsFresh(wf, taskStates, ords, mt, taskId) ==
    LET Check(r) == r.ok /\ IsTaskUpToDate(wf, taskStates, ords, mt, taskId, r.ins, r.outs)
    IN Check(ResolveFreshnessPathsForTask(wf, taskStates, wf.m_Tasks[taskId], taskId, ords[taskId]))

\* variant of PopulateSkippedTaskOutputsIfPossible that guesses in the ambiguous case: the
\* first slot gets the first path
PopulateSkippedTaskOutputsGuessing(wf, taskStates, taskDefinition, taskId, ord) ==
    LET old == taskStates[taskId].m_OutputValues
        slots == DOMAIN taskDefinition.m_Outputs
        Assign(outputSlotNames, resolvedOutputPaths) ==
            IF Len(outputSlotNames) = Len(resolvedOutputPaths)
            THEN [k \in (DOMAIN old) \cup slots |->
                     IF k \in slots
                     THEN resolvedOutputPaths[CHOOSE i \in 1..Len(outputSlotNames) :
                                                     outputSlotNames[i] = k]
                     ELSE old[k]]
            ELSE IF Len(resolvedOutputPaths) = 1
            THEN [k \in (DOMAIN old) \cup slots |->
                     IF k \in slots THEN resolvedOutputPaths[1] ELSE old[k]]
            ELSE IF Len(outputSlotNames) = 1
            THEN MapPut(old, outputSlotNames[1], resolvedOutputPaths[1])
            ELSE MapPut(old, outputSlotNames[1], resolvedOutputPaths[1])
        Rest(r) == IF ~r.ok THEN old
                   ELSE IF slots = {} \/ r.outs = <<>> THEN old
                   ELSE Assign(SortAsc(slots), r.outs)
    IN Rest(ResolveFreshnessPathsForTask(wf, taskStates, taskDefinition, taskId, ord))

PopulateSkippedTaskOutputsIfPossible(wf, taskStates, taskDefinition, taskId, ord) ==
    LET old == taskStates[taskId].m_OutputValues
        slots == DOMAIN taskDefinition.m_Outputs
        Assign(outputSlotNames, resolvedOutputPaths) ==
            IF Len(outputSlotNames) = Len(resolvedOutputPaths)
            THEN [k \in (DOMAIN old) \cup slots |->
                     IF k \in slots
                     THEN resolvedOutputPaths[CHOOSE i \in 1..Len(outputSlotNames) :
                                                     outputSlotNames[i] = k]
                     ELSE old[k]]
            ELSE IF Len(resolvedOutputPaths) = 1
            THEN [k \in (DOMAIN old) \cup slots |->
                     IF k \in slots THEN resolvedOutputPaths[1] ELSE old[k]]
            ELSE IF Len(outputSlotNames) = 1
            THEN MapPut(old, outputSlotNames[1], resolvedOutputPaths[1])
            ELSE old
        Rest(r) == IF ~r.ok THEN old
                   ELSE IF slots = {} \/ r.outs = <<>> THEN old
                   ELSE Assign(SortAsc(slots), r.outs)
    IN Rest(ResolveFreshnessPathsForTask(wf, taskStates, taskDefinition, taskId, ord))

-----------------------------------------------------------------------------
(* Shell executor (shellTaskExecutor.cpp) *)

\* outOrder is the iteration order of taskDefinition.m_Outputs
BuildOutputSlotMap(taskDefinition, taskState, outOrder) ==
    LET slots == DOMAIN taskDefinition.m_Outputs
        zipped == taskDefinition.m_FileOutputs # <<>>
                  /\ Len(taskDefinition.m_FileOutputs) = Cardinality(slots)
        fromInputs == IF zipped THEN {} ELSE slots \cap DOMAIN taskState.m_InputValues
    IN
    IF zipped
    THEN [k \in slots |->
             taskDefinition.m_FileOutputs[CHOOSE i \in 1..Len(outOrder) : outOrder[i] = k]]
    ELSE [k \in fromInputs |-> taskState.m_InputValues[k]]

ValidateScriptPath(path) == Len(path) >= 1 /\ path[1] = "scripts/"

\* std::string::find of a pattern of several letters, from position pos; 0 = npos
RECURSIVE FindSeq(_, _, _)
FindSeq(s, pattern, pos) ==
    IF pos + Len(pattern) - 1 > Len(s) THEN 0
    ELSE IF SubSeq(s, pos, pos + Len(pattern) - 1) = pattern THEN pos
    ELSE FindSeq(s, pattern, pos + 1)

\* the letters of the strings the shell executor handles: "${", "}", "inputs",
\* "outputs", "input[", "output[", "]", "slot.", "env." and "scripts/" stand for
\* themselves, every other letter is a character or a run of ordinary characters
InputsMacro == <<"${", "inputs", "}">>
OutputsMacro == <<"${", "outputs", "}">>

\* variant of EnsureDefaultInputOutputArgs that looks for "${inputs}" and "${outputs}"
\* only
EnsureDefaultListMacrosOnly(rawArgs) ==
    LET hasInputMacro == \E i \in 1..Len(rawArgs) : FindSeq(rawArgs[i], InputsMacro, 1) # 0
        hasOutputMacro == \E i \in 1..Len(rawArgs) : FindSeq(rawArgs[i], OutputsMacro, 1) # 0
        withInputs == IF hasInputMacro THEN rawArgs ELSE <<InputsMacro>> \o rawArgs
    IN IF hasOutputMacro THEN withInputs ELSE Append(withInputs, OutputsMacro)

EnsureDefaultInputOutputArgs(rawArgs) ==
    LET hasInputMacro == \E i \in 1..Len(rawArgs) :
                             \/ FindSeq(rawArgs[i], InputsMacro, 1) # 0
                             \/ FindSeq(rawArgs[i], <<"${", "input[">>, 1) # 0
        hasOutputMacro == \E i \in 1..Len(rawArgs) :
                              \/ FindSeq(rawArgs[i], OutputsMacro, 1) # 0
                              \/ FindSeq(rawArgs[i], <<"${", "output[">>, 1) # 0
        withInputs == IF hasInputMacro THEN rawArgs ELSE <<InputsMacro>> \o rawArgs
    IN IF hasOutputMacro THEN withInputs ELSE Append(withInputs, OutputsMacro)

\* JoinFileList and JoinArgumentsForSystem: the strings with a space between them
RECURSIVE JoinFileList(_)
JoinFileList(files) ==
    IF files = <<>> THEN <<>>
    ELSE IF Len(files) = 1 THEN files[1]
    ELSE files[1] \o <<" ">> \o JoinFileList(Tail(files))

JoinArgumentsForSystem(arguments) == JoinFileList(arguments)

\* std::stoul: the number the leading digits spell; it throws when there is none
DigitValue == [d \in {"0", "1", "2"} |-> IF d = "0" THEN 0 ELSE IF d = "1" THEN 1 ELSE 2]

RECURSIVE StoULLoop(_, _, _)
StoULLoop(s, i, acc) ==
    IF i > Len(s) \/ s[i] \notin DOMAIN DigitValue THEN acc
    ELSE StoULLoop(s, i + 1, 10 * acc + DigitValue[s[i]])

StoUL(s) ==
    IF s = <<>> \/ s[1] \notin DOMAIN DigitValue THEN [ok |-> FALSE, value |-> 0]
    ELSE [ok |-> TRUE, value |-> StoULLoop(s, 1, 0)]

\* the replacement of ${key} in ExpandTemplatesStrict
Replacement(key, taskDefinition, taskState) ==
    IF key = <<"inputs">> THEN [ok |-> TRUE, value |-> JoinFileList(taskDefinition.m_FileInputs)]
    ELSE IF key = <<"outputs">>
    THEN [ok |-> TRUE, value |-> JoinFileList(taskDefinition.m_FileOutputs)]
    ELSE IF key # <<>> /\ key[1] = "input[" /\ key[Len(key)] = "]"
    THEN LET index == StoUL(SubSeq(key, 2, Len(key) - 1)) IN
         IF ~index.ok \/ index.value >= Len(taskDefinition.m_FileInputs)
         THEN [ok |-> FALSE, value |-> <<>>]
         ELSE [ok |-> TRUE, value |-> taskDefinition.m_FileInputs[index.value + 1]]
    ELSE IF key # <<>> /\ key[1] = "output[" /\ key[Len(key)] = "]"
    THEN LET index == StoUL(SubSeq(key, 2, Len(key) - 1)) IN
         IF ~index.ok \/ index.value >= Len(taskDefinition.m_FileOutputs)
         THEN [ok |-> FALSE, value |-> <<>>]
         ELSE [ok |-> TRUE, value |-> taskDefinition.m_FileOutputs[index.value + 1]]
    ELSE IF key # <<>> /\ key[1] = "slot."
    THEN IF Tail(key) \in DOMAIN taskState.m_InputValues
         THEN [ok |-> TRUE, value |-> taskState.m_InputValues[Tail(key)]]
         ELSE [ok |-> FALSE, value |-> <<>>]
    ELSE IF key # <<>> /\ key[1] = "env."
    THEN IF Tail(key) \in DOMAIN taskDefinition.m_Environment.m_Variables
         THEN [ok |-> TRUE, value |-> taskDefinition.m_Environment.m_Variables[Tail(key)]]
         ELSE [ok |-> TRUE, value |-> <<>>]
    ELSE [ok |-> FALSE, value |-> <<>>]

RECURSIVE ExpandTemplatesStrictLoop(_, _, _, _, _)
ExpandTemplatesStrictLoop(raw, currentIndex, expandedOut, taskDefinition, taskState) ==
    IF currentIndex > Len(raw) THEN [ok |-> TRUE, out |-> expandedOut]
    ELSE
      LET startIndex == FindTok(raw, "${", currentIndex) IN
      IF startIndex = 0
      THEN [ok |-> TRUE, out |-> expandedOut \o SubSeq(raw, currentIndex, Len(raw))]
      ELSE
        LET prefix == expandedOut \o SubSeq(raw, currentIndex, startIndex - 1)
            closeBraceIndex == FindTok(raw, "}", startIndex + 1)
        IN
        IF closeBraceIndex = 0 THEN [ok |-> FALSE, out |-> prefix]
        ELSE
          LET replacement == Replacement(SubSeq(raw, startIndex + 1, closeBraceIndex - 1),
                                         taskDefinition, taskState)
          IN IF ~replacement.ok THEN [ok |-> FALSE, out |-> prefix]
             ELSE ExpandTemplatesStrictLoop(raw, closeBraceIndex + 1, prefix \o replacement.value,
                                            taskDefinition, taskState)

ExpandTemplatesStrict(raw, taskDefinition, taskState) ==
    ExpandTemplatesStrictLoop(raw, 1, <<>>, taskDefinition, taskState)

\* std::iscntrl in the "C" locale, for the control characters of the model: line feed,
\* tabulator and delete; "QUOT" and "BACKTICK" below are the double quote and the
\* backtick
ControlCharacters == {"LF", "TAB", "DEL"}

\* variant of IsSafeArgument without the test for control characters
IsSafeArgumentPrintableOnly(argument) ==
    \A i \in 1..Len(argument) : argument[i] \notin {";", "&", "|", ">", "<", "'", "QUOT", "BACKTICK"}

IsSafeArgument(argument) ==
    \A i \in 1..Len(argument) :
        /\ argument[i] \notin ControlCharacters
        /\ argument[i] \notin {";", "&", "|", ">", "<", "'", "QUOT", "BACKTICK"}

\* a value of the params document: a string, an array, a value of another type, or no
\* value under the key
JsonString(s) == [kind |-> "string", value |-> s]
JsonArray(a) == [kind |-> "array", value |-> a]
JsonNumber == [kind |-> "number"]
JsonAbsent == [kind |-> "absent"]

\* step 5 of Execute: the argument list, or the error of the first argument that fails
RECURSIVE BuildArgumentList(_, _, _, _, _)
BuildArgumentList(rawArgs, i, argumentList, taskDefinition, taskState) ==
    IF i > Len(rawArgs) THEN [ok |-> TRUE, error |-> "", argumentList |-> argumentList]
    ELSE
      LET expanded == ExpandTemplatesStrict(rawArgs[i], taskDefinition, taskState) IN
      IF ~expanded.ok
      THEN [ok |-> FALSE, error |-> "ShellTaskExecutor: Failed to expand argument template",
            argumentList |-> argumentList]
      ELSE IF ~IsSafeArgument(expanded.out)
      THEN [ok |-> FALSE,
            error |-> "ShellTaskExecutor: Argument contains unsupported characters (safety check failed)",
            argumentList |-> argumentList]
      ELSE BuildArgumentList(rawArgs, i + 1,
                             IF expanded.out # <<>> THEN Append(argumentList, expanded.out)
                             ELSE argumentList,
                             taskDefinition, taskState)

\* steps 1 to 5 of Execute on the parsed params document
PrepareCommand(taskDefinition, taskState) ==
    LET params == taskDefinition.m_ParamsJson
        Fail(message) == [ok |-> FALSE, error |-> message, argumentList |-> <<>>]
    IN
    IF params.json = "empty" THEN Fail("ShellTaskExecutor: Missing params JSON")
    ELSE IF params.json = "invalid" THEN Fail("ShellTaskExecutor: Invalid params JSON")
    ELSE IF params.command.kind = "absent" THEN Fail("ShellTaskExecutor: Missing 'command' field")
    ELSE IF params.command.kind # "string" THEN Fail("ShellTaskExecutor: Invalid 'command' field")
    ELSE IF ~ValidateScriptPath(params.command.value)
    THEN Fail("ShellTaskExecutor: Script path rejected (must start with 'scripts/')")
    ELSE IF params.args.kind \notin {"absent", "array"}
    THEN Fail("ShellTaskExecutor: 'args' must be an array if present")
    ELSE IF params.args.kind = "array"
            /\ \E i \in 1..Len(params.args.value) : params.args.value[i].kind # "string"
    THEN Fail("ShellTaskExecutor: Non-string value in 'args' array")
    ELSE
      LET rawArgs == IF params.args.kind = "absent" THEN <<>>
                     ELSE [i \in 1..Len(params.args.value) |-> params.args.value[i].value]
      IN BuildArgumentList(EnsureDefaultInputOutputArgs(rawArgs), 1, <<params.command.value>>,
                           taskDefinition, taskState)

\* ShellTaskExecutor::Execute; exitStatus is what std::system returns.  The result
\* tells whether std::system was called, with which command, and the state of the task
Execute(taskDefinition, taskState, outOrder, exitStatus) ==
    LET derivedOutputs == BuildOutputSlotMap(taskDefinition, taskState, outOrder)
        Finish(prepared) ==
            IF ~prepared.ok
            THEN [invoked |-> FALSE, fullCommand |-> <<>>, argumentList |-> <<>>, result |-> FALSE,
                  taskState |-> [taskState EXCEPT !.m_State = Failed,
                                                  !.m_LastErrorMessage = prepared.error]]
            ELSE IF exitStatus # 0
            THEN [invoked |-> TRUE, fullCommand |-> JoinArgumentsForSystem(prepared.argumentList),
                  argumentList |-> prepared.argumentList, result |-> FALSE,
                  taskState |-> [taskState EXCEPT
                                    !.m_State = Failed,
                                    !.m_LastErrorMessage =
                                        "ShellTaskExecutor: Shell command returned non-zero exit status"]]
            ELSE [invoked |-> TRUE, fullCommand |-> JoinArgumentsForSystem(prepared.argumentList),
                  argumentList |-> prepared.argumentList, result |-> TRUE,
                  taskState |-> [taskState EXCEPT
                                    !.m_State = Succeeded,
                                    !.m_OutputValues =
                                        [k \in (DOMAIN @) \cup DOMAIN derivedOutputs |->
                                            IF k \in DOMAIN derivedOutputs
                                            THEN derivedOutputs[k] ELSE @[k]]]]
    IN Finish(PrepareCommand(taskDefinition, taskState))

-----------------------------------------------------------------------------
(* Registry validation (workflowRegistry.cpp) *)

RECURSIVE ValidateTriggersLoop(_, _, _)
ValidateTriggersLoop(triggers, i, seenIds) ==
    IF i > Len(triggers) THEN TRUE
    ELSE IF triggers[i].m_Id \in seenIds THEN FALSE
    ELSE IF triggers[i].m_Type = "Unknown" THEN FALSE
    ELSE IF triggers[i].m_Type = "Cron" /\ triggers[i].m_ParamsJson = "" THEN FALSE
    ELSE ValidateTriggersLoop(triggers, i + 1, seenIds \cup {triggers[i].m_Id})

ValidateTriggers(wf) == ValidateTriggersLoop(wf.m_Triggers, 1, {})

ValidateTaskIO(task) ==
    /\ \A n \in DOMAIN task.m_Inputs :
          ~(task.m_Inputs[n].m_IsRequired /\ task.m_Inputs[n].m_Type = "")
    /\ \A n \in DOMAIN task.m_Outputs : task.m_Outputs[n].m_Type # ""

\* the loop returns false at the first task that fails a check; its result is
\* the same for every iteration order
ValidateTasks(wf) ==
    \A t \in DOMAIN wf.m_Tasks :
        /\ \A i \in 1..Len(wf.m_Tasks[t].m_DependsOn) :
              wf.m_Tasks[t].m_DependsOn[i] \in DOMAIN wf.m_Tasks
        /\ ValidateTaskIO(wf.m_Tasks[t])

RECURSIVE ValidateDataflowLoop(_, _)
ValidateDataflowLoop(wf, i) ==
    IF i > Len(wf.m_Dataflows) THEN TRUE
    ELSE
      LET df == wf.m_Dataflows[i] IN
      IF df.m_FromTask \notin DOMAIN wf.m_Tasks THEN FALSE
      ELSE IF df.m_ToTask \notin DOMAIN wf.m_Tasks THEN FALSE
      ELSE IF df.m_FromOutput # <<>> /\ df.m_FromOutput \notin DOMAIN wf.m_Tasks[df.m_FromTask].m_Outputs
           THEN FALSE
      ELSE IF df.m_ToInput # <<>> /\ df.m_ToInput \notin DOMAIN wf.m_Tasks[df.m_ToTask].m_Inputs
           THEN FALSE
      ELSE ValidateDataflowLoop(wf, i + 1)

ValidateDataflow(wf) == ValidateDataflowLoop(wf, 1)

\* the dfs lambda of ValidateNoCycles; res is "true" (cycle), "false" or "throws"
\* (wf.m_Tasks.at() of an id that is not a task)
RECURSIVE Dfs(_, _, _)
RECURSIVE DfsLoop(_, _, _, _)
Dfs(wf, taskId, st) ==
    IF taskId \in st.visiting THEN [st EXCEPT !.res = "true"]
    ELSE IF taskId \in st.visited THEN [st EXCEPT !.res = "false"]
    ELSE
      LET s1 == [st EXCEPT !.visiting = @ \cup {taskId}] IN
      IF taskId \notin DOMAIN wf.m_Tasks THEN [s1 EXCEPT !.res = "throws"]
      ELSE
        LET Leave(d) == IF d.res # "false" THEN d
                        ELSE [res |-> "false", visiting |-> d.visiting \ {taskId},
                              visited |-> d.visited \cup {taskId}]
        IN Leave(DfsLoop(wf, wf.m_Tasks[taskId].m_DependsOn, 1, s1))

DfsLoop(wf, deps, i, st) ==
    IF i > Len(deps) THEN [st EXCEPT !.res = "false"]
    ELSE
      LET Rest(r) == IF r.res # "false" THEN r
                     ELSE DfsLoop(wf, deps, i + 1, r)
      IN Rest(Dfs(wf, deps[i], st))

\* the loop of ValidateNoCycles over wf.m_Tasks, in the iteration order taskOrder
RECURSIVE ValidateNoCyclesLoop(_, _, _, _, _)
ValidateNoCyclesLoop(wf, taskOrder, i, st, ok) ==
    IF i > Len(taskOrder) THEN (IF ok THEN "true" ELSE "false")
    ELSE
      LET Rest(r) == IF r.res = "throws" THEN "throws"
                     ELSE ValidateNoCyclesLoop(wf, taskOrder, i + 1, r, ok /\ r.res = "false")
      IN Rest(Dfs(wf, taskOrder[i], st))

\* ValidateNoCycles that searches from the first task of the map only
ValidateNoCyclesFirstRoot(wf, taskOrder) ==
    ValidateNoCyclesLoop(wf, SubSeq(taskOrder, 1, 1), 1,
                         [res |-> "false", visiting |-> {}, visited |-> {}], TRUE)

ValidateNoCycles(wf, taskOrder) ==
    ValidateNoCyclesLoop(wf, taskOrder, 1, [res |-> "false", visiting |-> {}, visited |-> {}], TRUE)

ValidateWorkflow(wf, taskOrder) ==
    LET Result(triggersOk, tasksOk, dataflowOk, cyclesOk) ==
            IF cyclesOk = "throws" THEN "throws"
            ELSE IF triggersOk /\ tasksOk /\ dataflowOk /\ cyclesOk = "true" THEN "true"
            ELSE "false"
    IN Result(ValidateTriggers(wf), ValidateTasks(wf), ValidateDataflow(wf),
              ValidateNoCycles(wf, taskOrder))

\* taskOrders: for each workflow the iteration order of its task map.  An exception
\* leaves the loop over the workflows; without one every workflow is validated.
ValidateAll(workflows, taskOrders) ==
    LET Result(res) == IF \E w \in DOMAIN workflows : res[w] = "throws" THEN "throws"
                       ELSE IF \A w \in DOMAIN workflows : res[w] = "true" THEN "true"
                       ELSE "false"
    IN Result([w \in DOMAIN workflows |-> ValidateWorkflow(workflows[w], taskOrders[w])])

RECURSIVE TaskOrdersOf(_, _)
TaskOrdersOf(workflows, ids) ==
    IF ids = {} THEN {EmptyMap}
    ELSE LET w == CHOOSE x \in ids : TRUE IN
         {MapPut(f, w, o) : f \in TaskOrdersOf(workflows, ids \ {w}),
                            o \in Orders(DOMAIN workflows[w].m_Tasks)}

TaskOrders(workflows) == TaskOrdersOf(workflows, DOMAIN workflows)

-----------------------------------------------------------------------------
(* The workflows of the model: what LoadDirectory has put into the registry *)

Lit(a) == <<a>>

Slot(type, required) == [m_Type |-> type, m_IsRequired |-> required]

TaskDef(type, dependsOn, fileInputs, fileOutputs, inputs, outputs, command) ==
    [m_Type |-> type, m_DependsOn |-> dependsOn, m_FileInputs |-> fileInputs,
     m_FileOutputs |-> fileOutputs, m_Inputs |-> inputs, m_Outputs |-> outputs,
     m_ParamsJson |-> [command |-> command]]

Trigger(type, id, enabled, params) ==
    [m_Type |-> type, m_Id |-> id, m_IsEnabled |-> enabled, m_ParamsJson |-> params]

\* ParseRootObject: the trigger of a document without a "triggers" key
AutoTrigger == Trigger("Auto", "auto", TRUE, "{}")

Edge(fromTask, fromOutput, toTask, toInput) ==
    [m_FromTask |-> fromTask, m_FromOutput |-> fromOutput, m_ToTask |-> toTask, m_ToInput |-> toInput]

WorkflowDefinition(id, tasks, dataflows) ==
    [m_Id |-> id, m_Triggers |-> <<AutoTrigger>>, m_Tasks |-> tasks, m_Dataflows |-> dataflows]

\* scenario "linear rebuild": compile a.c -> a.o, link a.o -> app
WfBuild ==
    WorkflowDefinition("build",
        [t \in {"compile", "link"} |->
            IF t = "compile"
            THEN TaskDef("Shell", <<>>, <<Lit("a.c")>>, <<Lit("a.o")>>, EmptyMap,
                         Lit("object") :> Slot("path", FALSE), <<"scripts/", "cc">>)
            ELSE TaskDef("Shell", <<"compile">>, <<Lit("a.o")>>, <<Lit("app")>>, EmptyMap,
                         Lit("binary") :> Slot("path", FALSE), <<"scripts/", "ld">>)],
        <<>>)

\* two independent tasks of one wave and a task without an executor behind them
WfPar ==
    WorkflowDefinition("par",
        [t \in {"p", "q", "r"} |->
            IF t = "p"
            THEN TaskDef("Shell", <<>>, <<Lit("a.c")>>, <<Lit("a.o")>>, EmptyMap, EmptyMap,
                         <<"scripts/", "cc">>)
            ELSE IF t = "q"
            THEN TaskDef("Shell", <<>>, <<Lit("a.c")>>, <<Lit("app")>>, EmptyMap, EmptyMap,
                         <<"scripts/", "cc">>)
            ELSE TaskDef("Python", <<"p", "q">>, <<>>, <<>>, EmptyMap, EmptyMap, <<"main.py">>)],
        <<>>)

\* a and b depend on each other, c is independent of both
WfCyc ==
    WorkflowDefinition("cyc",
        [t \in {"a", "b", "c"} |->
            IF t = "a"
            THEN TaskDef("Shell", <<"b">>, <<>>, <<>>, EmptyMap, EmptyMap, <<"scripts/", "cc">>)
            ELSE IF t = "b"
            THEN TaskDef("Shell", <<"a">>, <<>>, <<>>, EmptyMap, EmptyMap, <<"scripts/", "cc">>)
            ELSE TaskDef("Shell", <<>>, <<Lit("a.c")>>, <<Lit("a.o")>>, EmptyMap, EmptyMap,
                         <<"scripts/", "cc">>)],
        <<>>)

\* scenario "dataflow resolution": load.rows feeds sum.section_text
WfFlow ==
    WorkflowDefinition("flow",
        [t \in {"load", "sum"} |->
            IF t = "load"
            THEN TaskDef("Shell", <<>>, <<Lit("a.c")>>, <<Lit("a.o")>>, EmptyMap,
                         Lit("rows") :> Slot("path", FALSE), <<"scripts/", "load">>)
            ELSE TaskDef("Shell", <<"load">>, <<<<"${", "inputs.", "section_text", "}">>>>,
                         <<Lit("app")>>, Lit("section_text") :> Slot("string", TRUE), EmptyMap,
                         <<"scripts/", "sum">>)],
        <<Edge("load", Lit("rows"), "sum", Lit("section_text"))>>)

\* t has a required, typed input slot that no dataflow edge supplies; u waits for t;
\* the script of v lies outside scripts/
WfNoEdge ==
    WorkflowDefinition("noedge",
        [t \in {"t", "u", "v"} |->
            IF t = "t"
            THEN TaskDef("Shell", <<>>, <<>>, <<>>, Lit("x") :> Slot("string", TRUE), EmptyMap,
                         <<"scripts/", "cc">>)
            ELSE IF t = "u"
            THEN TaskDef("Shell", <<"t">>, <<>>, <<>>, EmptyMap, EmptyMap, <<"scripts/", "cc">>)
            ELSE TaskDef("Shell", <<>>, <<>>, <<>>, EmptyMap, EmptyMap, <<"bin/", "sh">>)],
        <<>>)

\* the output slot of w has no type
WfUntyped ==
    WorkflowDefinition("untyped",
        [t \in {"w"} |-> TaskDef("Shell", <<>>, <<>>, <<>>, EmptyMap,
                                 Lit("obj") :> Slot("", FALSE), <<"scripts/", "cc">>)],
        <<>>)

\* compile hands its object file to link over a dataflow edge
WfChain ==
    WorkflowDefinition("chain",
        [t \in {"compile", "link"} |->
            IF t = "compile"
            THEN TaskDef("Shell", <<>>, <<Lit("a.c")>>, <<Lit("a.o")>>, EmptyMap,
                         Lit("object") :> Slot("path", FALSE), <<"scripts/", "cc">>)
            ELSE TaskDef("Shell", <<"compile">>, <<Lit("a.o")>>, <<Lit("app")>>,
                         Lit("x") :> Slot("path", TRUE),
                         Lit("binary") :> Slot("path", FALSE), <<"scripts/", "ld">>)],
        <<Edge("compile", Lit("object"), "link", Lit("x"))>>)

\* one task with two file outputs
WfTwoOut ==
    WorkflowDefinition("twoout",
        [t \in {"gen"} |->
            TaskDef("Shell", <<>>, <<Lit("a.c")>>, <<Lit("a.o"), Lit("app")>>, EmptyMap,
                    (Lit("object") :> Slot("path", FALSE)) @@ (Lit("binary") :> Slot("path", FALSE)),
                    <<"scripts/", "gen">>)],
        <<>>)

\* b takes its input from a over a dataflow edge and does not depend on a
WfCross ==
    WorkflowDefinition("cross",
        [t \in {"a", "b"} |->
            IF t = "a"
            THEN TaskDef("Shell", <<>>, <<>>, <<Lit("a.o")>>, EmptyMap,
                         Lit("rows") :> Slot("path", FALSE), <<"scripts/", "a">>)
            ELSE TaskDef("Shell", <<>>, <<>>, <<>>, Lit("x") :> Slot("path", TRUE), EmptyMap,
                         <<"scripts/", "b">>)],
        <<Edge("a", Lit("rows"), "b", Lit("x"))>>)

\* a workflow without tasks
WfEmpty == WorkflowDefinition("empty", EmptyMap, <<>>)

\* a depends_on entry that names no task
WfDangling ==
    WorkflowDefinition("dangling",
        [t \in {"x"} |-> TaskDef("Shell", <<"ghost">>, <<>>, <<>>, EmptyMap, EmptyMap,
                                 <<"scripts/", "cc">>)],
        <<>>)

RegistryOf(defs) == [w \in {d.m_Id : d \in defs} |-> CHOOSE d \in defs : d.m_Id = w]

Registries == {RegistryOf({WfBuild, WfPar, WfCyc, WfFlow, WfNoEdge, WfEmpty, WfUntyped}),
               RegistryOf({WfBuild, WfDangling})}

\* a workflow id that no registry holds
UnknownWorkflowId == "nope"

Files == {Lit("a.c"), Lit("a.o"), Lit("app")}

-----------------------------------------------------------------------------
(* WorkflowOrchestrator (workflowOrchestrator.cpp) *)

\* the definition borrowed from the registry by the run in progress
Def == m_Workflows[run.m_WorkflowId]

\* IsTaskReady taking every terminal state of a dependency, Failed included, as done
IsTaskReadyAnyTerminal(taskStates, taskDefinition) ==
    \A i \in 1..Len(taskDefinition.m_DependsOn) :
        /\ taskDefinition.m_DependsOn[i] \in DOMAIN taskStates
        /\ taskStates[taskDefinition.m_DependsOn[i]].m_State \in Terminal

\* IsTaskReady that looks at the first entry of depends_on only
IsTaskReadyFirstDependency(taskStates, taskDefinition) ==
    \A i \in 1..Len(taskDefinition.m_DependsOn) :
        i = 1 => /\ taskDefinition.m_DependsOn[i] \in DOMAIN taskStates
                 /\ taskStates[taskDefinition.m_DependsOn[i]].m_State \in {Succeeded, Skipped}

IsTaskReady(taskStates, taskDefinition) ==
    \A i \in 1..Len(taskDefinition.m_DependsOn) :
        /\ taskDefinition.m_DependsOn[i] \in DOMAIN taskStates
        /\ taskStates[taskDefinition.m_DependsOn[i]].m_State \in {Succeeded, Skipped}

\* RunWorkflowOnce: the run before ExecuteWorkflow.  The run id of a call without one
\* is the workflow id and the time of the call; calls are taken to fall into distinct
\* seconds and the time is the number of the call.
NewRun(wf, callNo) ==
    [m_RunId |-> <<wf.m_Id, "_", callNo>>, m_WorkflowId |-> wf.m_Id, m_State |-> "Pending",
     m_TaskStates |-> [t \in DOMAIN wf.m_Tasks |-> TaskInstanceState],
     m_IsCompleted |-> FALSE, m_HasFailed |-> FALSE]

\* StoreLastRun keeping only the runs that succeeded
StoreLastRunOnSuccess(lastRuns, workflowId, workflowRun) ==
    IF workflowRun.m_HasFailed THEN lastRuns ELSE MapPut(lastRuns, workflowId, workflowRun)

\* RunWorkflowOnce: m_LastRuns[workflowDefinition.m_Id] = workflowRun
StoreLastRun(lastRuns, workflowId, workflowRun) == MapPut(lastRuns, workflowId, workflowRun)

HasActiveTasks(r) ==
    \E t \in DOMAIN r.m_TaskStates : r.m_TaskStates[t].m_State \in {Pending, Ready, Running}

AllTerminal(r) ==
    \A t \in DOMAIN r.m_TaskStates : r.m_TaskStates[t].m_State \in Terminal

\* ExecuteWorkflowStep without the deadlock branch: a wave without progress completes
\* the run and leaves m_HasFailed alone
ExecuteWorkflowStepNoDeadlockFlag(r, progress) ==
    IF ~progress THEN [r EXCEPT !.m_IsCompleted = TRUE]
    ELSE IF AllTerminal(r) THEN [r EXCEPT !.m_IsCompleted = TRUE]
    ELSE r

\* ExecuteWorkflowStep that waits for every task to be terminal and never gives up
ExecuteWorkflowStepNoGiveUp(r, progress) ==
    IF AllTerminal(r) THEN [r EXCEPT !.m_IsCompleted = TRUE] ELSE r

\* ExecuteWorkflow: the body of the loop after ExecuteOneReadyWave has returned true
ExecuteWorkflowStep(r, progress) ==
    IF ~progress
    THEN [r EXCEPT !.m_HasFailed = @ \/ HasActiveTasks(r), !.m_IsCompleted = TRUE]
    ELSE IF AllTerminal(r) THEN [r EXCEPT !.m_IsCompleted = TRUE]
    ELSE r

\* ExecuteWorkflow: overallSuccess && !m_HasFailed; overallSuccess is cleared only
\* together with m_HasFailed being set
ExecuteWorkflowResult(r) == ~r.m_HasFailed

\* the driver after a wave: the run has completed and RunWorkflowOnce returns, or the
\* next wave starts
AfterWave(r, progress) ==
    LET r2 == ExecuteWorkflowStep(r, progress) IN
    IF r2.m_IsCompleted
    THEN /\ m_LastRuns' = StoreLastRun(m_LastRuns, Def.m_Id, r2)
         /\ lastCall' = [wf |-> r2.m_WorkflowId, known |-> TRUE,
                         result |-> ExecuteWorkflowResult(r2), run |-> r2, waves |-> waveNo]
         /\ pc' = "idle"
         /\ run' = WorkflowRun
         /\ iterOrder' = <<>>
         /\ scanIdx' = 0
         /\ waveNo' = 0
         /\ waveOf' = EmptyMap
         /\ readyTasks' = <<>> /\ futures' = <<>> /\ joinIdx' = 0
         /\ madeProgress' = FALSE /\ worker' = EmptyMap
    ELSE /\ run' = r2
         /\ pc' = "scan"
         /\ scanIdx' = 1
         /\ waveNo' = waveNo + 1
         /\ readyTasks' = <<>> /\ futures' = <<>> /\ joinIdx' = 0
         /\ madeProgress' = FALSE
         /\ UNCHANGED <<m_LastRuns, lastCall, iterOrder, waveOf, worker>>

\* JarvisAgent::InitializeWorkflows: ValidateAll only logs; an exception leaves it
InitializeWorkflows ==
    /\ pc = "boot"
    /\ \E taskOrders \in TaskOrders(m_Workflows) :
          /\ validateResult' = ValidateAll(m_Workflows, taskOrders)
          /\ pc' = IF validateResult' = "throws" THEN "crashed" ELSE "idle"
    /\ UNCHANGED <<triggerVars, probe, m_Workflows, m_LastRuns, run, iterOrder, scanIdx, readyTasks, futures, joinIdx,
                   madeProgress, worker, mtime, clock, waveNo, waveOf, callCount, lastCall>>

\* RunWorkflowOnce, up to the first readiness scan
RunWorkflowOnce(workflowId, limit) ==
    /\ pc = "idle"
    /\ callCount < limit
    /\ callCount' = callCount + 1
    /\ IF workflowId \notin DOMAIN m_Workflows
       THEN /\ lastCall' = [lastCall EXCEPT !.wf = workflowId, !.known = FALSE, !.result = FALSE,
                                            !.run = WorkflowRun, !.waves = 0]
            /\ UNCHANGED <<run, pc, iterOrder, scanIdx, waveNo, waveOf>>
       ELSE /\ run' = NewRun(m_Workflows[workflowId], callCount + 1)
            /\ \E order \in Orders(DOMAIN m_Workflows[workflowId].m_Tasks) : iterOrder' = order
            /\ pc' = "scan"
            /\ scanIdx' = 1
            /\ waveNo' = 1
            /\ waveOf' = [t \in DOMAIN m_Workflows[workflowId].m_Tasks |-> 0]
            /\ UNCHANGED lastCall
    /\ UNCHANGED <<triggerVars, probe, m_Workflows, validateResult, m_LastRuns, readyTasks, futures, joinIdx,
                   madeProgress, worker, mtime, clock>>

\* ExecuteOneReadyWave, step 1: one iteration of the loop over workflowRun.m_TaskStates
ScanTask ==
    /\ pc = "scan"
    /\ scanIdx <= Len(iterOrder)
    /\ scanIdx' = scanIdx + 1
    /\ LET t == iterOrder[scanIdx]
           st == run.m_TaskStates[t]
       IN
       \E ords \in InputOrders(Def) :
          IF st.m_State \notin {Pending, Ready}
          THEN UNCHANGED <<run, readyTasks, madeProgress>>
          ELSE IF t \notin DOMAIN Def.m_Tasks
          THEN /\ run' = [run EXCEPT !.m_TaskStates[t].m_State = Failed, !.m_HasFailed = TRUE]
               /\ madeProgress' = TRUE
               /\ UNCHANGED readyTasks
          ELSE IF ~IsTaskReady(run.m_TaskStates, Def.m_Tasks[t])
          THEN UNCHANGED <<run, readyTasks, madeProgress>>
          ELSE IF IsFresh(Def, run.m_TaskStates, ords, mtime, t)
          THEN /\ run' = [run EXCEPT
                            !.m_TaskStates[t].m_OutputValues =
                                PopulateSkippedTaskOutputsIfPossible(Def, run.m_TaskStates,
                                                                     Def.m_Tasks[t], t, ords[t]),
                            !.m_TaskStates[t].m_State = Skipped]
               /\ madeProgress' = TRUE
               /\ UNCHANGED readyTasks
          ELSE /\ readyTasks' = Append(readyTasks, t)
               /\ UNCHANGED <<run, madeProgress>>
    /\ UNCHANGED <<triggerVars, probe, m_Workflows, validateResult, m_LastRuns, pc, iterOrder, futures, joinIdx, worker,
                   mtime, clock, waveNo, waveOf, callCount, lastCall>>

\* ExecuteOneReadyWave, step 2: the end of the scan
ScanEnd ==
    /\ pc = "scan"
    /\ scanIdx > Len(iterOrder)
    /\ IF readyTasks = <<>>
       THEN AfterWave(run, madeProgress)
       ELSE /\ madeProgress' = TRUE
            /\ pc' = "submit"
            /\ UNCHANGED <<m_LastRuns, run, iterOrder, scanIdx, readyTasks, futures, joinIdx, worker,
                           waveNo, waveOf, lastCall>>
    /\ UNCHANGED <<triggerVars, probe, m_Workflows, validateResult, mtime, clock, callCount>>

\* SubmitTask with the driver counting the attempt at submission
SubmitTaskCountingAttempt ==
    /\ pc = "submit"
    /\ LET t == readyTasks[Len(futures) + 1] IN
       /\ run' = [run EXCEPT !.m_TaskStates[t].m_State = Running,
                             !.m_TaskStates[t].m_AttemptCount = @ + 1]
       /\ futures' = Append(futures, t)
       /\ worker' = MapPut(worker, t, "queued")
       /\ waveOf' = [waveOf EXCEPT ![t] = waveNo]
    /\ IF Len(futures) + 1 = Len(readyTasks)
       THEN pc' = "join" /\ joinIdx' = 1
       ELSE UNCHANGED <<pc, joinIdx>>
    /\ UNCHANGED <<triggerVars, probe, m_Workflows, validateResult, m_LastRuns, iterOrder, scanIdx, readyTasks,
                   madeProgress, mtime, clock, waveNo, callCount, lastCall>>

\* ExecuteOneReadyWave, step 3: one iteration of the dispatch loop
SubmitTask ==
    /\ pc = "submit"
    /\ LET t == readyTasks[Len(futures) + 1] IN
       /\ run' = [run EXCEPT !.m_TaskStates[t].m_State = Running]
       /\ futures' = Append(futures, t)
       /\ worker' = MapPut(worker, t, "queued")
       /\ waveOf' = [waveOf EXCEPT ![t] = waveNo]
    /\ IF Len(futures) + 1 = Len(readyTasks)
       THEN pc' = "join" /\ joinIdx' = 1
       ELSE UNCHANGED <<pc, joinIdx>>
    /\ UNCHANGED <<triggerVars, probe, m_Workflows, validateResult, m_LastRuns, iterOrder, scanIdx, readyTasks,
                   madeProgress, mtime, clock, waveNo, callCount, lastCall>>

\* ExecuteTaskInstance on a pool worker, up to the executor call
WorkerStart(t) ==
    /\ t \in DOMAIN worker
    /\ worker[t] = "queued"
    /\ \E ords \in InputOrders(Def) :
          LET st == [run.m_TaskStates[t] EXCEPT !.m_State = Running,
                                                !.m_AttemptCount = @ + 1]
              taskStates == [run.m_TaskStates EXCEPT ![t] = st]
              Resolved(resolved) ==
                  IF ~resolved.ok
                  THEN /\ run' = [run EXCEPT !.m_TaskStates[t] =
                                    [st EXCEPT !.m_LastErrorMessage =
                                                   "Failed to resolve task inputs via dataflow / context",
                                               !.m_State = Failed]]
                       /\ worker' = [worker EXCEPT ![t] = "false"]
                  ELSE /\ run' = [run EXCEPT !.m_TaskStates[t] =
                                    [st EXCEPT !.m_InputValues = resolved.vals]]
                       /\ worker' = [worker EXCEPT ![t] = "exec"]
          IN Resolved(ResolveInputsForTask(Def, taskStates, Def.m_Tasks[t], t, ords[t]))
    /\ UNCHANGED <<triggerVars, probe, m_Workflows, validateResult, m_LastRuns, pc, iterOrder, scanIdx, readyTasks,
                   futures, joinIdx, madeProgress, mtime, clock, waveNo, waveOf, callCount,
                   lastCall>>

\* the files a successful script has written: its literal file_outputs, at the time
\* of the clock
WriteOutputs(mt, taskDefinition, now) ==
    [p \in DOMAIN mt |->
        IF \E i \in 1..Len(taskDefinition.m_FileOutputs) : taskDefinition.m_FileOutputs[i] = p
        THEN now ELSE mt[p]]

\* ExecuteTaskInstance on a pool worker: TaskExecutorRegistry::Execute and the
\* finalization of the state.  Only the shell executor is registered.
WorkerExec(t) ==
    /\ t \in DOMAIN worker
    /\ worker[t] = "exec"
    /\ LET taskDefinition == Def.m_Tasks[t]
           st == run.m_TaskStates[t]
       IN
       IF taskDefinition.m_Type # "Shell"
       THEN /\ run' = [run EXCEPT !.m_TaskStates[t] =
                         [st EXCEPT !.m_LastErrorMessage = "No executor registered",
                                    !.m_State = Failed]]
            /\ worker' = [worker EXCEPT ![t] = "false"]
            /\ UNCHANGED <<mtime, clock>>
       ELSE IF ~ValidateScriptPath(taskDefinition.m_ParamsJson.command)
       THEN /\ run' = [run EXCEPT !.m_TaskStates[t] =
                         [st EXCEPT !.m_LastErrorMessage =
                                        "ShellTaskExecutor: Script path rejected (must start with 'scripts/')",
                                    !.m_State = Failed]]
            /\ worker' = [worker EXCEPT ![t] = "false"]
            /\ UNCHANGED <<mtime, clock>>
       ELSE \E outOrder \in Orders(DOMAIN taskDefinition.m_Outputs),
               exit \in {"zero", "nonzero", "throws"} :
               LET derivedOutputs == BuildOutputSlotMap(taskDefinition, st, outOrder) IN
               CASE exit = "zero" ->
                      /\ run' = [run EXCEPT !.m_TaskStates[t] =
                                   [st EXCEPT !.m_OutputValues =
                                                  [k \in (DOMAIN @) \cup DOMAIN derivedOutputs |->
                                                      IF k \in DOMAIN derivedOutputs
                                                      THEN derivedOutputs[k] ELSE @[k]],
                                              !.m_State = Succeeded]]
                      /\ worker' = [worker EXCEPT ![t] = "true"]
                      /\ mtime' = WriteOutputs(mtime, taskDefinition, clock)
                      /\ clock' = IF clock < MaxTime THEN clock + 1 ELSE clock
                 [] exit = "nonzero" ->
                      /\ run' = [run EXCEPT !.m_TaskStates[t] =
                                   [st EXCEPT !.m_LastErrorMessage =
                                                  "ShellTaskExecutor: Shell command returned non-zero exit status",
                                              !.m_State = Failed]]
                      /\ worker' = [worker EXCEPT ![t] = "false"]
                      /\ UNCHANGED <<mtime, clock>>
                 [] exit = "throws" ->
                      /\ worker' = [worker EXCEPT ![t] = "exception"]
                      /\ UNCHANGED <<run, mtime, clock>>
    /\ UNCHANGED <<triggerVars, probe, m_Workflows, validateResult, m_LastRuns, pc, iterOrder, scanIdx, readyTasks,
                   futures, joinIdx, madeProgress, waveNo, waveOf, callCount, lastCall>>

\* JoinedState without the failure branch
JoinedStateIgnoringFailure(state, success) ==
    IF state # Succeeded /\ state # Skipped THEN Succeeded ELSE state

\* JoinedState that hands a failed task back to the readiness scan
JoinedStateRetry(state, success) ==
    IF ~success THEN Pending
    ELSE IF state # Succeeded /\ state # Skipped THEN Succeeded
    ELSE state

\* ExecuteOneReadyWave, step 4: the state of a task after its future has been joined
JoinedState(state, success) ==
    IF ~success THEN Failed
    ELSE IF state # Succeeded /\ state # Skipped THEN Succeeded
    ELSE state

\* JoinTask without future.get(): a task whose worker has not returned counts as failed
JoinTaskNoWait ==
    /\ pc = "join"
    /\ joinIdx <= Len(futures)
    /\ LET t == futures[joinIdx]
           success == worker[t] = "true"
           r == [run EXCEPT !.m_TaskStates[t].m_State = JoinedState(@, success),
                            !.m_HasFailed = @ \/ ~success]
       IN
       IF joinIdx = Len(futures)
       THEN AfterWave(r, TRUE)
       ELSE /\ run' = r
            /\ joinIdx' = joinIdx + 1
            /\ UNCHANGED <<m_LastRuns, pc, iterOrder, scanIdx, readyTasks, futures, madeProgress,
                           worker, waveNo, waveOf, lastCall>>
    /\ UNCHANGED <<triggerVars, probe, m_Workflows, validateResult, mtime, clock, callCount>>

\* ExecuteOneReadyWave, step 4: one iteration of the join loop; after the last one
\* the wave returns to ExecuteWorkflow
JoinTask ==
    /\ pc = "join"
    /\ joinIdx <= Len(futures)
    /\ LET t == futures[joinIdx]
           success == worker[t] = "true"
           r == [run EXCEPT !.m_TaskStates[t].m_State = JoinedState(@, success),
                            !.m_HasFailed = @ \/ ~success]
       IN
       /\ worker[t] \in {"true", "false", "exception"}
       /\ IF joinIdx = Len(futures)
          THEN AfterWave(r, TRUE)
          ELSE /\ run' = r
               /\ joinIdx' = joinIdx + 1
               /\ UNCHANGED <<m_LastRuns, pc, iterOrder, scanIdx, readyTasks, futures, madeProgress,
                              worker, waveNo, waveOf, lastCall>>
    /\ UNCHANGED <<triggerVars, probe, m_Workflows, validateResult, mtime, clock, callCount>>

-----------------------------------------------------------------------------
(* Specifications *)

\* the file systems a sequence of runs starts from: only the source file, every file
\* and up to date, every file with stale products, no file
InitialFileSystems ==
    {[p \in Files |-> IF p = Lit("a.c") THEN 1 ELSE 0],
     [p \in Files |-> 1],
     [p \in Files |-> IF p = Lit("a.c") THEN 2 ELSE 1],
     [p \in Files |-> 0]}

NoProbe == [fn |-> "none", n |-> 0]

\* the orchestrator before its first call, and nothing observed yet
InitOrchestrator ==
    /\ validateResult = "none"
    /\ m_LastRuns = EmptyMap
    /\ run = WorkflowRun
    /\ pc = "boot"
    /\ iterOrder = <<>>
    /\ scanIdx = 0
    /\ readyTasks = <<>>
    /\ futures = <<>>
    /\ joinIdx = 0
    /\ madeProgress = FALSE
    /\ worker = EmptyMap
    /\ waveNo = 0
    /\ waveOf = EmptyMap
    /\ callCount = 0
    /\ lastCall = [wf |-> "", known |-> FALSE, result |-> FALSE, run |-> WorkflowRun, waves |-> 0]
    /\ probe = NoProbe
    /\ fired = <<>>

InitCommon ==
    /\ InitOrchestrator
    /\ m_CronTriggers = <<>>
    /\ m_FileWatchTriggers = <<>>
    /\ m_ManualTriggers = <<>>
    /\ m_FileWatchIndex = EmptyMap

Init ==
    /\ m_Workflows \in Registries
    /\ InitCommon
    /\ mtime \in InitialFileSystems
    /\ clock = SetMax({mtime[p] : p \in Files} \cup {1})

Step(limit) ==
    \/ InitializeWorkflows
    \/ \E w \in (DOMAIN m_Workflows) \cup {UnknownWorkflowId} : RunWorkflowOnce(w, limit)
    \/ ScanTask
    \/ ScanEnd
    \/ SubmitTask
    \/ \E t \in DOMAIN worker : WorkerStart(t)
    \/ \E t \in DOMAIN worker : WorkerExec(t)
    \/ JoinTask

Next == Step(MaxRuns)

Spec == Init /\ [][Next]_vars

\* the steps of the driver thread and of the pool workers; a call of RunWorkflowOnce
\* is up to the caller
RunStep ==
    \/ ScanTask
    \/ ScanEnd
    \/ SubmitTask
    \/ \E t \in DOMAIN worker : WorkerStart(t)
    \/ \E t \in DOMAIN worker : WorkerExec(t)
    \/ JoinTask

\* one call of RunWorkflowOnce
NextOnce == Step(1)

\* the driver thread and the workers keep running, and every executor call returns
FairSpec == Init /\ [][NextOnce]_vars /\ WF_vars(RunStep)

-----------------------------------------------------------------------------
(* Validation of generated documents: LoadDirectory has put one parsed document "gen"
   of the tasks a, b and c into the registry, alone or next to another workflow *)

GenTriggerLists ==
    {<<AutoTrigger>>,
     <<>>,
     <<Trigger("Cron", "t1", TRUE, "{cron}")>>,
     <<Trigger("Cron", "t1", TRUE, "")>>,
     <<Trigger("Unknown", "t1", TRUE, "{}")>>,
     <<Trigger("Manual", "t1", TRUE, ""), Trigger("FileWatch", "t1", FALSE, "{}")>>,
     <<Trigger("Manual", "t1", TRUE, ""), Trigger("Cron", "t2", TRUE, "{cron}")>>}

GenDependsOn(t) ==
    IF t = "a" THEN {<<>>, <<"b">>, <<"c">>, <<"b", "c">>, <<"a">>, <<"ghost">>}
    ELSE IF t = "b" THEN {<<>>, <<"a">>, <<"c">>, <<"c", "a">>}
    ELSE {<<>>, <<"a">>, <<"b">>}

\* the output slots of a
GenOutputs ==
    {EmptyMap, Lit("obj") :> Slot("path", FALSE), Lit("obj") :> Slot("", FALSE)}

\* the input slots of b
GenInputs ==
    {EmptyMap, Lit("x") :> Slot("string", TRUE), Lit("x") :> Slot("string", FALSE),
     Lit("x") :> Slot("", TRUE), Lit("x") :> Slot("", FALSE)}

GenDataflows ==
    {<<>>,
     <<Edge("a", Lit("obj"), "b", Lit("x"))>>,
     <<Edge("a", Lit("rows"), "b", Lit("x"))>>,
     <<Edge("a", Lit("obj"), "b", Lit("y"))>>,
     <<Edge("ghost", Lit("obj"), "b", Lit("x"))>>,
     <<Edge("a", Lit("obj"), "ghost", Lit("x"))>>}

GenWorkflows ==
    {[m_Id |-> "gen", m_Triggers |-> triggers,
      m_Tasks |-> [t \in {"a", "b", "c"} |->
                      TaskDef("Shell", IF t = "a" THEN da ELSE IF t = "b" THEN db ELSE dc,
                              <<>>, <<>>, IF t = "b" THEN ins ELSE EmptyMap,
                              IF t = "a" THEN outs ELSE EmptyMap, <<"scripts/", "cc">>)],
      m_Dataflows |-> dataflows] :
        triggers \in GenTriggerLists, da \in GenDependsOn("a"), db \in GenDependsOn("b"),
        dc \in GenDependsOn("c"), ins \in GenInputs, outs \in GenOutputs,
        dataflows \in GenDataflows}

GenRegistries ==
    {RegistryOf({wf} \cup others) : wf \in GenWorkflows, others \in {{}, {WfBuild}, {WfUntyped}}}

InitValidate ==
    /\ m_Workflows \in GenRegistries
    /\ InitCommon
    /\ mtime = [p \in Files |-> 0]
    /\ clock = 1

SpecValidate == InitValidate /\ [][InitializeWorkflows]_vars

-----------------------------------------------------------------------------
(* Direct calls of the freshness check of the readiness scan: the workflow "fresh" of
   the tasks a, b and c (c depends on b, b may depend on a) with literal paths, under
   every assignment of write times to the files *)

FreshFileInputs(t) ==
    IF t = "a" THEN {<<>>, <<Lit("a.c")>>}
    ELSE IF t = "b" THEN {<<>>, <<Lit("a.o")>>}
    ELSE {<<>>}

FreshFileOutputs(t) ==
    IF t = "a" THEN {<<>>, <<Lit("a.o")>>, <<Lit("a.o"), Lit("app")>>}
    ELSE IF t = "b" THEN {<<Lit("a.c")>>, <<Lit("app")>>}
    ELSE {<<Lit("app")>>, <<Lit("a.o"), Lit("app")>>}

FreshDependsOn(t) ==
    IF t = "a" THEN {<<>>}
    ELSE IF t = "b" THEN {<<>>, <<"a">>}
    ELSE {<<"b">>, <<"a", "b">>}

FreshWorkflows ==
    {WorkflowDefinition("fresh",
        [t \in {"a", "b", "c"} |->
            TaskDef("Shell", IF t = "a" THEN da ELSE IF t = "b" THEN db ELSE dc,
                    IF t = "a" THEN ia ELSE IF t = "b" THEN ib ELSE <<>>,
                    IF t = "a" THEN oa ELSE IF t = "b" THEN ob ELSE oc,
                    EmptyMap, EmptyMap, <<"scripts/", "cc">>)],
        <<>>) :
        da \in FreshDependsOn("a"), db \in FreshDependsOn("b"), dc \in FreshDependsOn("c"),
        ia \in FreshFileInputs("a"), ib \in FreshFileInputs("b"),
        oa \in FreshFileOutputs("a"), ob \in FreshFileOutputs("b"), oc \in FreshFileOutputs("c")}

InitFresh ==
    /\ m_Workflows \in {RegistryOf({wf}) : wf \in FreshWorkflows}
    /\ InitCommon
    /\ mtime \in [Files -> 0..MaxTime]
    /\ clock = SetMax({mtime[p] : p \in Files} \cup {1})

\* the freshness check of the scan (ExecuteOneReadyWave) for the task t of a new run
CheckTaskUpToDate(t) ==
    /\ probe = NoProbe
    /\ LET wf == m_Workflows["fresh"] IN
       \E ords \in InputOrders(wf) :
          probe' = [fn |-> "IsTaskUpToDate", task |-> t,
                    result |-> IsFresh(wf, NewRun(wf, 1).m_TaskStates, ords, mtime, t)]
    /\ UNCHANGED <<triggerVars, m_Workflows, validateResult, m_LastRuns, run, pc, iterOrder, scanIdx,
                   readyTasks, futures, joinIdx, madeProgress, worker, mtime, clock, waveNo,
                   waveOf, callCount, lastCall>>

NextFresh == \E t \in {"a", "b", "c"} : CheckTaskUpToDate(t)

SpecFresh == InitFresh /\ [][NextFresh]_vars

-----------------------------------------------------------------------------
(* One call of RunWorkflowOnce for a workflow with file outputs, under every assignment
   of write times to the files *)

RerunRegistries == {RegistryOf({WfBuild}), RegistryOf({WfChain}), RegistryOf({WfTwoOut})}

InitRerun ==
    /\ m_Workflows \in RerunRegistries
    /\ InitCommon
    /\ mtime \in [Files -> 0..MaxTime]
    /\ clock = SetMax({mtime[p] : p \in Files} \cup {1})

SpecRerun == InitRerun /\ [][NextOnce]_vars

-----------------------------------------------------------------------------
(* Direct calls of the two functions that fill m_OutputValues: the workflow "out" of
   the tasks up and t (t depends on up and takes its input x from up.rows), with every
   choice of output slots and of up to MaxPaths file_outputs of t *)

MaxPaths == 3

OutSlotNames == {Lit("binary"), Lit("object"), Lit("rows")}

\* a literal path, a template over the input x, a template over an output of t itself
OutPathEntries ==
    {Lit("a.o"), Lit("app"), <<"${", "inputs.", "x", "}">>, <<"${", "outputs.", "obj", "}">>}

OutPathLists == UNION {[1..n -> OutPathEntries] : n \in 0..MaxPaths}

OutWorkflows ==
    {WorkflowDefinition("out",
        [t \in {"up", "t"} |->
            IF t = "up"
            THEN TaskDef("Shell", <<>>, <<>>, <<>>, EmptyMap,
                         Lit("rows") :> Slot("path", FALSE), <<"scripts/", "up">>)
            ELSE TaskDef("Shell", <<"up">>, <<>>, fileOutputs, Lit("x") :> Slot("path", TRUE),
                         [n \in slots |-> Slot("path", FALSE)], <<"scripts/", "t">>)],
        <<Edge("up", Lit("rows"), "t", Lit("x"))>>) :
        slots \in SUBSET OutSlotNames, fileOutputs \in OutPathLists}

\* the output values of up when t is looked at: up has run or was skipped, with or
\* without a value in its slot rows
UpOutputValues == {EmptyMap, Lit("rows") :> Lit("a.c")}

OutTaskStates(wf, upOut) ==
    [NewRun(wf, 1).m_TaskStates EXCEPT !["up"].m_State = Succeeded,
                                       !["up"].m_OutputValues = upOut]

InitOutputs ==
    /\ m_Workflows \in {RegistryOf({wf}) : wf \in OutWorkflows}
    /\ InitCommon
    /\ mtime = [p \in Files |-> 1]
    /\ clock = 1

\* the scan skips t: PopulateSkippedTaskOutputsIfPossible on the state of t
PopulateSkipped ==
    /\ probe = NoProbe
    /\ LET wf == m_Workflows["out"] IN
       \E upOut \in UpOutputValues : \E ords \in InputOrders(wf) :
          probe' = [fn |-> "PopulateSkippedTaskOutputsIfPossible", upOut |-> upOut,
                    result |-> PopulateSkippedTaskOutputsIfPossible(
                                   wf, OutTaskStates(wf, upOut), wf.m_Tasks["t"], "t", ords["t"])]
    /\ UNCHANGED <<triggerVars, m_Workflows, validateResult, m_LastRuns, run, pc, iterOrder, scanIdx,
                   readyTasks, futures, joinIdx, madeProgress, worker, mtime, clock, waveNo,
                   waveOf, callCount, lastCall>>

\* t is executed instead: ExecuteTaskInstance has resolved its inputs, and the shell
\* executor returns with exit status zero
ShellExecuteOutputs ==
    /\ probe = NoProbe
    /\ LET wf == m_Workflows["out"]
           taskDefinition == wf.m_Tasks["t"]
       IN
       \E upOut \in UpOutputValues : \E ords \in InputOrders(wf) :
       \E outOrder \in Orders(DOMAIN taskDefinition.m_Outputs) :
          LET resolved == ResolveInputsForTask(wf, OutTaskStates(wf, upOut), taskDefinition,
                                               "t", ords["t"])
              st == [OutTaskStates(wf, upOut)["t"] EXCEPT !.m_InputValues = resolved.vals]
              derivedOutputs == BuildOutputSlotMap(taskDefinition, st, outOrder)
          IN /\ resolved.ok
             /\ probe' = [fn |-> "ShellTaskExecutor::Execute", upOut |-> upOut,
                          result |-> [k \in (DOMAIN st.m_OutputValues) \cup DOMAIN derivedOutputs |->
                                         IF k \in DOMAIN derivedOutputs
                                         THEN derivedOutputs[k] ELSE st.m_OutputValues[k]]]
    /\ UNCHANGED <<triggerVars, m_Workflows, validateResult, m_LastRuns, run, pc, iterOrder, scanIdx,
                   readyTasks, futures, joinIdx, madeProgress, worker, mtime, clock, waveNo,
                   waveOf, callCount, lastCall>>

NextOutputs == PopulateSkipped \/ ShellExecuteOutputs

SpecOutputs == InitOutputs /\ [][NextOutputs]_vars

-----------------------------------------------------------------------------
(* Direct calls of DataflowResolver::ResolveInputsForTask for the task t of the
   workflow "res": every choice of input slots of t, every list of up to MaxEdges
   dataflow edges, and the sources p and q with and without output values *)

MaxEdges == 3

ResInputNames == {Lit("x"), Lit("y"), Lit("z")}

ResEdges ==
    {Edge("p", Lit("rows"), "t", Lit("x")),
     Edge("q", Lit("rows"), "t", Lit("x")),
     Edge("p", Lit("obj"), "t", Lit("y")),
     Edge("q", Lit("obj"), "t", Lit("z")),
     Edge("ghost", Lit("rows"), "t", Lit("x")),
     Edge("p", Lit("rows"), "q", Lit("x"))}

ResEdgeLists == UNION {[1..n -> ResEdges] : n \in 0..MaxEdges}

ResWorkflows ==
    {WorkflowDefinition("res",
        [t \in {"p", "q", "t"} |->
            IF t = "t"
            THEN TaskDef("Shell", <<"p", "q">>, <<>>, <<>>, [n \in slots |-> Slot("string", TRUE)],
                         EmptyMap, <<"scripts/", "t">>)
            ELSE TaskDef("Shell", <<>>, <<>>, <<>>, EmptyMap,
                         (Lit("rows") :> Slot("string", FALSE)) @@ (Lit("obj") :> Slot("string", FALSE)),
                         <<"scripts/", "src">>)],
        dataflows) :
        slots \in SUBSET ResInputNames, dataflows \in ResEdgeLists}

\* the output values of p: a plain value or a template over the input y in rows, a
\* plain value or a template over the input z in obj
ResOutputValuesP ==
    {r @@ o : r \in {EmptyMap, Lit("rows") :> Lit("a.o"),
                     Lit("rows") :> <<"${", "inputs.", "y", "}">>},
              o \in {EmptyMap, Lit("obj") :> Lit("a.c"),
                     Lit("obj") :> <<"pre/", "${", "inputs.", "z", "}">>}}

ResOutputValuesQ ==
    {EmptyMap, Lit("rows") :> Lit("app"), (Lit("rows") :> Lit("app")) @@ (Lit("obj") :> Lit("a.o"))}

ResTaskStates(wf, pOut, qOut) ==
    [NewRun(wf, 1).m_TaskStates EXCEPT !["p"].m_State = Succeeded, !["p"].m_OutputValues = pOut,
                                       !["q"].m_State = Succeeded, !["q"].m_OutputValues = qOut]

InitResolve ==
    /\ m_Workflows \in {RegistryOf({wf}) : wf \in ResWorkflows}
    /\ InitCommon
    /\ mtime = [p \in Files |-> 1]
    /\ clock = 1

\* step (ii) of ExecuteTaskInstance for t, behind the finished p and q
ResolveInputs ==
    /\ probe = NoProbe
    /\ LET wf == m_Workflows["res"] IN
       \E pOut \in ResOutputValuesP, qOut \in ResOutputValuesQ :
       \E ord \in Orders(DOMAIN wf.m_Tasks["t"].m_Inputs) :
          probe' = [fn |-> "ResolveInputsForTask", states |-> ResTaskStates(wf, pOut, qOut),
                    result |-> ResolveInputsForTask(wf, ResTaskStates(wf, pOut, qOut),
                                                    wf.m_Tasks["t"], "t", ord)]
    /\ UNCHANGED <<triggerVars, m_Workflows, validateResult, m_LastRuns, run, pc, iterOrder, scanIdx,
                   readyTasks, futures, joinIdx, madeProgress, worker, mtime, clock, waveNo,
                   waveOf, callCount, lastCall>>

NextResolve == ResolveInputs

SpecResolve == InitResolve /\ [][NextResolve]_vars

-----------------------------------------------------------------------------
(* One call of RunWorkflowOnce for a workflow with a dataflow edge, along depends_on
   (chain) or not (cross) *)

InitCross ==
    /\ m_Workflows = RegistryOf({WfChain, WfCross})
    /\ InitCommon
    /\ mtime \in InitialFileSystems
    /\ clock = SetMax({mtime[p] : p \in Files} \cup {1})

SpecCross == InitCross /\ [][NextOnce]_vars

-----------------------------------------------------------------------------
(* Trigger engine (triggerEngine.cpp). For the cron triggers time is counted in minutes
   from the midnight that begins a Sunday 1 January of a year of 365 days, in local
   time; a cron expression is the list of its space-separated fields. For the
   file-watch triggers a time point counts the ticks of std::chrono::system_clock,
   TicksPerMillisecond of them to the millisecond, and a debounce interval counts
   milliseconds *)

MaxTriggers == 2
MaxCalls == 3
TicksPerMillisecond == 2

Star == [kind |-> "*"]
Num(n) == [kind |-> "num", value |-> n]
Word == [kind |-> "word"]

FieldMin == <<0, 0, 1, 1, 0>>
FieldMax == <<59, 23, 31, 12, 6>>

\* parseField: "*", or std::stoi and the range check
ParseField(field, minValue, maxValue) ==
    \/ field.kind = "*"
    \/ field.kind = "num" /\ field.value >= minValue /\ field.value <= maxValue

\* CronExpression::Parse
Parse(expression) ==
    [m_IsValid |-> /\ Len(expression) = 5
                   /\ \A i \in 1..5 : ParseField(expression[i], FieldMin[i], FieldMax[i]),
     m_Fields |-> expression]

\* std::localtime: the days before each month, and the fields of a time
DaysBeforeMonth == <<0, 31, 59, 90, 120, 151, 181, 212, 243, 273, 304, 334, 365>>

MonthOfDay(day) == CHOOSE m \in 1..12 : DaysBeforeMonth[m] <= day % 365 /\ day % 365 < DaysBeforeMonth[m + 1]

TimeField(i, t) ==
    IF i = 1 THEN t % 60
    ELSE IF i = 2 THEN (t \div 60) % 24
    ELSE IF i = 3 THEN ((t \div 1440) % 365) - DaysBeforeMonth[MonthOfDay(t \div 1440)] + 1
    ELSE IF i = 4 THEN MonthOfDay(t \div 1440)
    ELSE (t \div 1440) % 7

\* the test of one candidate time in ComputeNextFireTime, fields from..to
FieldsMatch(expression, from, to, t) ==
    \A i \in from..to : expression.m_Fields[i].kind = "*" \/ expression.m_Fields[i].value = TimeField(i, t)

\* the days from..to on which the date fields of the expression match
MatchingDays(expression, from, to) ==
    IF \A i \in 3..5 : expression.m_Fields[i].kind = "*" THEN from..to
    ELSE {d \in from..to : FieldsMatch(expression, 3, 5, d * 1440)}

\* the times from..to at which the time fields of the expression match
MatchingTimes(expression, from, to) ==
    IF \A i \in 1..2 : expression.m_Fields[i].kind = "*" THEN from..to
    ELSE {t \in from..to : FieldsMatch(expression, 1, 2, t)}

\* CronExpression::ComputeNextFireTime: the first of the candidates referenceTime + 1,
\* ..., referenceTime + 60 * 24 * 366 that matches, referenceTime if there is none
ComputeNextFireTime(expression, referenceTime) ==
    IF ~expression.m_IsValid THEN referenceTime
    ELSE
      LET first == referenceTime + 1
          last == referenceTime + 60 * 24 * 366
          Times(days) ==
              IF days = {} THEN {}
              ELSE LET d1 == SetMin(days)
                       t1 == MatchingTimes(expression, SetMax({d1 * 1440, first}),
                                           SetMin({d1 * 1440 + 1439, last}))
                   IN IF t1 # {} \/ days = {d1} THEN t1
                      ELSE MatchingTimes(expression, SetMin(days \ {d1}) * 1440,
                                         SetMin({SetMin(days \ {d1}) * 1440 + 1439, last}))
          First(candidates) == IF candidates = {} THEN referenceTime ELSE SetMin(candidates)
      IN First(Times(MatchingDays(expression, first \div 1440, last \div 1440)))

\* variant of FireTrigger that calls the callback twice
FireTriggerTwice(log, workflowId, triggerId) ==
    Append(Append(log, [m_WorkflowId |-> workflowId, m_TriggerId |-> triggerId]),
           [m_WorkflowId |-> workflowId, m_TriggerId |-> triggerId])

\* TriggerEngine::FireTrigger with the callback set: the event goes to the callback
FireTrigger(log, workflowId, triggerId) ==
    Append(log, [m_WorkflowId |-> workflowId, m_TriggerId |-> triggerId])

\* variant of EraseWorkflowFromVector that erases only the first trigger of the workflow
RECURSIVE EraseFirstOfWorkflow(_, _)
EraseFirstOfWorkflow(triggerVector, workflowId) ==
    IF triggerVector = <<>> THEN <<>>
    ELSE IF Head(triggerVector).m_WorkflowId = workflowId THEN Tail(triggerVector)
         ELSE <<Head(triggerVector)>> \o EraseFirstOfWorkflow(Tail(triggerVector), workflowId)

\* EraseWorkflowFromVector
RECURSIVE EraseWorkflowFromVector(_, _)
EraseWorkflowFromVector(triggerVector, workflowId) ==
    IF triggerVector = <<>> THEN <<>>
    ELSE IF Head(triggerVector).m_WorkflowId = workflowId
         THEN EraseWorkflowFromVector(Tail(triggerVector), workflowId)
         ELSE <<Head(triggerVector)>> \o EraseWorkflowFromVector(Tail(triggerVector), workflowId)

\* variant of RebuildIndex that assigns the position instead of appending it
RebuildIndexLastPosition(fileWatchTriggers) ==
    [path \in {fileWatchTriggers[i].m_WatchedPath : i \in 1..Len(fileWatchTriggers)} |->
        <<SetMax({i \in 1..Len(fileWatchTriggers) : fileWatchTriggers[i].m_WatchedPath = path})>>]

\* the rebuilt index of ClearWorkflowTriggers (positions count from 1)
RebuildIndex(fileWatchTriggers) ==
    [path \in {fileWatchTriggers[i].m_WatchedPath : i \in 1..Len(fileWatchTriggers)} |->
        SelectSeq([i \in 1..Len(fileWatchTriggers) |-> i],
                  LAMBDA i : fileWatchTriggers[i].m_WatchedPath = path)]

\* the loop of Tick
RECURSIVE TickLoop(_, _, _, _)
TickLoop(cronTriggers, i, log, now) ==
    IF i > Len(cronTriggers) THEN [triggers |-> cronTriggers, log |-> log]
    ELSE
      LET c == cronTriggers[i] IN
      IF ~c.m_IsEnabled \/ ~c.m_Expression.m_IsValid \/ c.m_NextFireTime > now
      THEN TickLoop(cronTriggers, i + 1, log, now)
      ELSE TickLoop([cronTriggers EXCEPT ![i].m_NextFireTime =
                                             ComputeNextFireTime(c.m_Expression, now)],
                    i + 1, FireTrigger(log, c.m_WorkflowId, c.m_TriggerId), now)

\* std::chrono::duration_cast<std::chrono::milliseconds> of a difference of time
\* points: the quotient is truncated toward zero
DurationCastMilliseconds(ticks) ==
    IF ticks >= 0 THEN ticks \div TicksPerMillisecond
    ELSE -((-ticks) \div TicksPerMillisecond)

\* the loop of NotifyFileEvent over the positions the index has for the path
RECURSIVE NotifyLoop(_, _, _, _, _, _)
NotifyLoop(fileWatchTriggers, indices, k, log, fileEventType, now) ==
    IF k > Len(indices) THEN [triggers |-> fileWatchTriggers, log |-> log]
    ELSE IF indices[k] > Len(fileWatchTriggers)
    THEN NotifyLoop(fileWatchTriggers, indices, k + 1, log, fileEventType, now)
    ELSE
      LET f == fileWatchTriggers[indices[k]]
          canFire == \/ ~f.m_HasFiredOnce
                     \/ DurationCastMilliseconds(now - f.m_LastFireTime) >= f.m_DebounceInterval
      IN
      IF ~f.m_IsEnabled \/ fileEventType \notin Range(f.m_Events) \/ ~canFire
      THEN NotifyLoop(fileWatchTriggers, indices, k + 1, log, fileEventType, now)
      ELSE NotifyLoop([fileWatchTriggers EXCEPT ![indices[k]].m_HasFiredOnce = TRUE,
                                                ![indices[k]].m_LastFireTime = now],
                      indices, k + 1, FireTrigger(log, f.m_WorkflowId, f.m_TriggerId),
                      fileEventType, now)

WorkflowIds == {"w1", "w2"}
TriggerIds == {"auto", "t1"}

\* what an engine call leaves alone: the orchestrator, the registry, the file system
orchestratorVars ==
    <<m_Workflows, validateResult, m_LastRuns, run, pc, iterOrder, scanIdx, readyTasks, futures,
      joinIdx, madeProgress, worker, mtime, clock, waveNo, waveOf, callCount, lastCall>>

Called(fn) == probe' = [fn |-> fn, n |-> probe.n + 1]

AddAutoTrigger(workflowId, triggerId, isEnabled) ==
    /\ probe.n < MaxCalls
    /\ probe' = [fn |-> "AddAutoTrigger", n |-> probe.n + 1, workflowId |-> workflowId,
                 triggerId |-> triggerId, isEnabled |-> isEnabled]
    /\ fired' = IF isEnabled THEN FireTrigger(fired, workflowId, triggerId) ELSE fired
    /\ UNCHANGED <<m_CronTriggers, m_FileWatchTriggers, m_ManualTriggers, m_FileWatchIndex,
                   orchestratorVars>>

\* std::chrono::system_clock::now() reads clock
AddCronTrigger(workflowId, triggerId, expression, isEnabled) ==
    /\ probe.n < MaxCalls
    /\ Len(m_CronTriggers) < MaxTriggers
    /\ Called("AddCronTrigger")
    /\ LET parsed == Parse(expression) IN
       m_CronTriggers' =
           Append(m_CronTriggers,
                  [m_WorkflowId |-> workflowId, m_TriggerId |-> triggerId, m_Expression |-> parsed,
                   m_NextFireTime |-> IF parsed.m_IsValid THEN ComputeNextFireTime(parsed, clock)
                                      ELSE 0,
                   m_IsEnabled |-> isEnabled /\ parsed.m_IsValid])
    /\ UNCHANGED <<m_FileWatchTriggers, m_ManualTriggers, m_FileWatchIndex, fired, orchestratorVars>>

AddFileWatchTrigger(workflowId, triggerId, path, events, debounceMilliseconds, isEnabled) ==
    /\ probe.n < MaxCalls
    /\ Len(m_FileWatchTriggers) < MaxTriggers
    /\ Called("AddFileWatchTrigger")
    /\ m_FileWatchTriggers' =
           Append(m_FileWatchTriggers,
                  [m_WorkflowId |-> workflowId, m_TriggerId |-> triggerId, m_WatchedPath |-> path,
                   m_Events |-> events, m_DebounceInterval |-> debounceMilliseconds,
                   m_LastFireTime |-> 0, m_HasFiredOnce |-> FALSE, m_IsEnabled |-> isEnabled])
    /\ m_FileWatchIndex' =
           MapPut(m_FileWatchIndex, path,
                  Append(IF path \in DOMAIN m_FileWatchIndex THEN m_FileWatchIndex[path] ELSE <<>>,
                         Len(m_FileWatchTriggers) + 1))
    /\ UNCHANGED <<m_CronTriggers, m_ManualTriggers, fired, orchestratorVars>>

AddManualTrigger(workflowId, triggerId, isEnabled) ==
    /\ probe.n < MaxCalls
    /\ Len(m_ManualTriggers) < MaxTriggers
    /\ Called("AddManualTrigger")
    /\ m_ManualTriggers' =
           Append(m_ManualTriggers,
                  [m_WorkflowId |-> workflowId, m_TriggerId |-> triggerId, m_IsEnabled |-> isEnabled])
    /\ UNCHANGED <<m_CronTriggers, m_FileWatchTriggers, m_FileWatchIndex, fired, orchestratorVars>>

ClearWorkflowTriggers(workflowId) ==
    /\ probe.n < MaxCalls
    /\ Called("ClearWorkflowTriggers")
    /\ m_CronTriggers' = EraseWorkflowFromVector(m_CronTriggers, workflowId)
    /\ m_FileWatchTriggers' = EraseWorkflowFromVector(m_FileWatchTriggers, workflowId)
    /\ m_ManualTriggers' = EraseWorkflowFromVector(m_ManualTriggers, workflowId)
    /\ m_FileWatchIndex' = RebuildIndex(m_FileWatchTriggers')
    /\ UNCHANGED <<fired, orchestratorVars>>

Tick(now) ==
    /\ probe.n < MaxCalls
    /\ Called("Tick")
    /\ LET r == TickLoop(m_CronTriggers, 1, fired, now) IN
       /\ m_CronTriggers' = r.triggers
       /\ fired' = r.log
    /\ UNCHANGED <<m_FileWatchTriggers, m_ManualTriggers, m_FileWatchIndex, orchestratorVars>>

NotifyFileEvent(path, fileEventType, now) ==
    /\ probe.n < MaxCalls
    /\ Called("NotifyFileEvent")
    /\ IF path \notin DOMAIN m_FileWatchIndex
       THEN UNCHANGED <<m_FileWatchTriggers, fired>>
       ELSE LET r == NotifyLoop(m_FileWatchTriggers, m_FileWatchIndex[path], 1, fired,
                                fileEventType, now) IN
            /\ m_FileWatchTriggers' = r.triggers
            /\ fired' = r.log
    /\ UNCHANGED <<m_CronTriggers, m_ManualTriggers, m_FileWatchIndex, orchestratorVars>>

\* variant of FireManualTrigger that stops at the first trigger with the ids, enabled
\* or not
FireManualTriggerFirstMatch(workflowId, triggerId) ==
    /\ probe.n < MaxCalls
    /\ Called("FireManualTrigger")
    /\ LET matches == SelectSeq(m_ManualTriggers,
                                LAMBDA t : t.m_WorkflowId = workflowId /\ t.m_TriggerId = triggerId)
       IN fired' = IF matches # <<>> /\ matches[1].m_IsEnabled
                   THEN FireTrigger(fired, workflowId, triggerId)
                   ELSE fired
    /\ UNCHANGED <<m_CronTriggers, m_FileWatchTriggers, m_ManualTriggers, m_FileWatchIndex,
                   orchestratorVars>>

FireManualTrigger(workflowId, triggerId) ==
    /\ probe.n < MaxCalls
    /\ Called("FireManualTrigger")
    /\ fired' = IF \E i \in 1..Len(m_ManualTriggers) :
                      /\ m_ManualTriggers[i].m_IsEnabled
                      /\ m_ManualTriggers[i].m_WorkflowId = workflowId
                      /\ m_ManualTriggers[i].m_TriggerId = triggerId
                THEN FireTrigger(fired, workflowId, triggerId)
                ELSE fired
    /\ UNCHANGED <<m_CronTriggers, m_FileWatchTriggers, m_ManualTriggers, m_FileWatchIndex,
                   orchestratorVars>>

\* the engine after construction with a callback that records the events
InitTrigger ==
    /\ m_Workflows = RegistryOf({WfBuild})
    /\ InitCommon
    /\ mtime = [p \in Files |-> 1]
    /\ clock = 1

NextTrigger ==
    \/ \E w \in WorkflowIds, id \in TriggerIds, en \in BOOLEAN : AddAutoTrigger(w, id, en)
    \/ \E w \in WorkflowIds, en \in BOOLEAN :
       \E e \in {<<Star, Star, Star, Star, Star>>, <<Star, Star, Num(31), Num(2), Star>>,
                 <<Star, Star, Star>>} : AddCronTrigger(w, "t1", e, en)
    \/ \E w \in WorkflowIds, path \in {Lit("a.c"), Lit("a.o")}, d \in {0, 1}, en \in BOOLEAN :
          AddFileWatchTrigger(w, "t1", path, <<"Created", "Modified">>, d, en)
    \/ \E w \in WorkflowIds, en \in BOOLEAN : AddManualTrigger(w, "t1", en)
    \/ \E w \in WorkflowIds : ClearWorkflowTriggers(w)
    \/ \E now \in 0..MaxTime : Tick(now)
    \/ \E path \in {Lit("a.c"), Lit("a.o")}, ty \in {"Modified", "Deleted"}, now \in 0..MaxTime :
          NotifyFileEvent(path, ty, now)
    \/ \E w \in WorkflowIds, id \in TriggerIds : FireManualTrigger(w, id)

SpecTrigger == InitTrigger /\ [][NextTrigger]_vars

\* the engine with a cron, a file-watch and a manual trigger "t1" registered for each
\* of the two workflows, in either order, the file-watch triggers before or after
\* their first fire
InitRegistered ==
    /\ m_Workflows = RegistryOf({WfBuild})
    /\ InitOrchestrator
    /\ mtime = [p \in Files |-> 1]
    /\ clock = 1
    /\ \E order \in {<<"w1", "w2">>, <<"w2", "w1">>}, isEnabled \in BOOLEAN, hasFiredOnce \in BOOLEAN :
          /\ m_CronTriggers =
                 [i \in 1..2 |->
                     [m_WorkflowId |-> order[i], m_TriggerId |-> "t1",
                      m_Expression |-> Parse(<<Star, Star, Star, Star, Star>>),
                      m_NextFireTime |->
                          ComputeNextFireTime(Parse(<<Star, Star, Star, Star, Star>>), clock),
                      m_IsEnabled |-> isEnabled]]
          /\ m_FileWatchTriggers =
                 [i \in 1..2 |->
                     [m_WorkflowId |-> order[i], m_TriggerId |-> "t1", m_WatchedPath |-> Lit("a.c"),
                      m_Events |-> <<"Created", "Modified">>, m_DebounceInterval |-> 1,
                      m_LastFireTime |-> IF hasFiredOnce THEN 1 ELSE 0,
                      m_HasFiredOnce |-> hasFiredOnce, m_IsEnabled |-> TRUE]]
          /\ m_ManualTriggers =
                 [i \in 1..2 |->
                     [m_WorkflowId |-> order[i], m_TriggerId |-> "t1", m_IsEnabled |-> isEnabled]]
    /\ m_FileWatchIndex = RebuildIndex(m_FileWatchTriggers)

SpecRegistered == InitRegistered /\ [][NextTrigger]_vars

-----------------------------------------------------------------------------
(* The shell executor on one task: the workflow "sh" has the task t, whose params
   document, file_inputs and input values are drawn from the sets below *)

MaxArgs == 2

\* entries of the "args" array: strings with and without templates, with each of the
\* characters the safety check looks for, and a value that is not a string
ShellArgStrings ==
    {Lit("a"), InputsMacro, OutputsMacro,
     <<"${", "input[", "0", "]", "}">>, <<"${", "input[", "1", "]", "}">>,
     <<"${", "input[", "a", "]", "}">>, <<"-o", "${", "output[", "0", "]", "}">>,
     <<"${", "slot.", "x", "}">>, <<"${", "slot.", "y", "}">>,
     <<"${", "env.", "HOME", "}">>, <<"${", "env.", "NONE", "}">>,
     <<"${", "inputs">>, <<"${", "a", "}">>, <<"$", "(", "a", ")">>}
    \cup {<<"a", c>> : c \in {";", "&", "|", ">", "<", "'", "QUOT", "BACKTICK", "LF", "TAB", "DEL"}}

ShellArgValues ==
    {JsonAbsent, JsonNumber}
    \cup {JsonArray(a) : a \in UNION {[1..n -> {JsonString(x) : x \in ShellArgStrings} \cup {JsonNumber}] :
                                        n \in 0..MaxArgs}}

ShellParams ==
    {[json |-> j, command |-> JsonAbsent, args |-> JsonAbsent] : j \in {"empty", "invalid"}}
    \cup {[json |-> "object", command |-> c, args |-> JsonAbsent] :
             c \in {JsonAbsent, JsonNumber, JsonString(<<>>), JsonString(<<"bin/", "scripts/">>)}}
    \cup {[json |-> "object", command |-> JsonString(c), args |-> a] :
             c \in {<<"scripts/", "run">>, <<"run">>}, a \in ShellArgValues}
    \cup {[json |-> "object", command |-> JsonString(<<"scripts/", "run", c, "rm">>), args |-> a] :
             c \in {";", "LF"}, a \in {JsonAbsent, JsonArray(<<JsonString(Lit("a"))>>)}}

ShellFileInputs == {<<Lit("a.c")>>, <<<<"a", ";", "c">>>>, <<>>}

ShellWorkflows ==
    {WorkflowDefinition("sh",
        [t \in {"t"} |->
            [m_Type |-> "Shell", m_DependsOn |-> <<>>, m_FileInputs |-> fileInputs,
             m_FileOutputs |-> <<Lit("a.o")>>, m_Inputs |-> Lit("x") :> Slot("string", FALSE),
             m_Outputs |-> Lit("object") :> Slot("path", FALSE),
             m_Environment |-> [m_Variables |-> Lit("HOME") :> Lit("/home")],
             m_ParamsJson |-> params]],
        <<>>) : fileInputs \in ShellFileInputs, params \in ShellParams}

\* the state of t when its worker calls the executor: Running, its input x resolved
ShellTaskStates ==
    {[TaskInstanceState EXCEPT !.m_State = Running, !.m_AttemptCount = 1,
                               !.m_InputValues = Lit("x") :> v,
                               !.m_OutputValues = Lit("rows") :> Lit("old")] :
        v \in {Lit("v"), <<"v", "|">>}}

InitShell ==
    /\ m_Workflows \in {RegistryOf({wf}) : wf \in ShellWorkflows}
    /\ InitCommon
    /\ mtime = [p \in Files |-> 1]
    /\ clock = 1

\* ShellTaskExecutor::Execute on t
ShellExecute ==
    /\ probe = NoProbe
    /\ LET taskDefinition == m_Workflows["sh"].m_Tasks["t"] IN
       \E taskState \in ShellTaskStates, exitStatus \in {0, 1} :
          probe' = [fn |-> "ShellTaskExecutor::Execute", before |-> taskState,
                    out |-> Execute(taskDefinition, taskState, <<Lit("object")>>, exitStatus)]
    /\ UNCHANGED <<triggerVars, m_Workflows, validateResult, m_LastRuns, run, pc, iterOrder, scanIdx,
                   readyTasks, futures, joinIdx, madeProgress, worker, mtime, clock, waveNo,
                   waveOf, callCount, lastCall>>

\* EnsureDefaultInputOutputArgs on the strings of the "args" array of t
EnsureDefaults ==
    /\ probe = NoProbe
    /\ LET args == m_Workflows["sh"].m_Tasks["t"].m_ParamsJson.args
           rawArgs == IF args.kind = "array"
                      THEN [i \in 1..Len(SelectSeq(args.value, LAMBDA e : e.kind = "string")) |->
                               SelectSeq(args.value, LAMBDA e : e.kind = "string")[i].value]
                      ELSE <<>>
       IN probe' = [fn |-> "EnsureDefaultInputOutputArgs", rawArgs |-> rawArgs,
                    result |-> EnsureDefaultInputOutputArgs(rawArgs)]
    /\ UNCHANGED <<triggerVars, m_Workflows, validateResult, m_LastRuns, run, pc, iterOrder, scanIdx,
                   readyTasks, futures, joinIdx, madeProgress, worker, mtime, clock, waveNo,
                   waveOf, callCount, lastCall>>

NextShell == ShellExecute \/ EnsureDefaults

SpecShell == InitShell /\ [][NextShell]_vars

-----------------------------------------------------------------------------
(* Loading workflow documents: WorkflowJsonParser, WorkflowRegistry::LoadFile, LoadDirectory *)

\* JSON values of a document. An object is the sequence of its fields in document order,
\* a number carries its text. The text of a file is one of these values, or is no JSON.
JsonBool(b) == [kind |-> "boolean", value |-> b]

JsonNumberOf(text) == [kind |-> "number", value |-> text]

JsonObject(fields) == [kind |-> "object", value |-> fields]

Field(key, value) == [key |-> key, value |-> value]

JsonNull == [kind |-> "null"]

EmptyContent == [kind |-> "empty"]

NotJson == [kind |-> "invalid"]

\* result: [ok, output]
ElementToString(element) ==
    IF element.kind = "string" THEN [ok |-> TRUE, output |-> element.value]
    ELSE IF element.kind = "number" THEN [ok |-> TRUE, output |-> element.value]
    ELSE IF element.kind = "boolean"
         THEN [ok |-> TRUE, output |-> IF element.value THEN "true" ELSE "false"]
    ELSE [ok |-> FALSE, output |-> ""]

\* the raw JSON text of an element; the texts of non-empty values are not told apart
ExtractRawJson(element) ==
    IF element.kind = "object" /\ element.value = <<>> THEN "{}" ELSE "{..}"

StringToTriggerType(typeString) ==
    IF typeString = "auto" THEN "Auto"
    ELSE IF typeString = "cron" THEN "Cron"
    ELSE IF typeString = "file_watch" THEN "FileWatch"
    ELSE IF typeString = "structure" THEN "Structure"
    ELSE IF typeString = "manual" THEN "Manual"
    ELSE "Unknown"

\* the field loop of ParseTrigger; acc = [ok, trigger, hasType, hasId]
RECURSIVE ParseTriggerLoop(_, _, _)
ParseTriggerLoop(fields, i, acc) ==
    IF i > Len(fields) THEN acc
    ELSE LET key == fields[i].key
             value == fields[i].value
         IN  IF key = "type" THEN
                 IF ~ElementToString(value).ok THEN [acc EXCEPT !.ok = FALSE]
                 ELSE ParseTriggerLoop(fields, i + 1,
                          [acc EXCEPT !.trigger.m_Type =
                                          StringToTriggerType(ElementToString(value).output),
                                      !.hasType = TRUE])
             ELSE IF key = "id" THEN
                 IF ~ElementToString(value).ok THEN [acc EXCEPT !.ok = FALSE]
                 ELSE ParseTriggerLoop(fields, i + 1,
                          [acc EXCEPT !.trigger.m_Id = ElementToString(value).output,
                                      !.hasId = TRUE])
             ELSE IF key = "enabled" THEN
                 IF value.kind # "boolean" THEN [acc EXCEPT !.ok = FALSE]
                 ELSE ParseTriggerLoop(fields, i + 1,
                          [acc EXCEPT !.trigger.m_IsEnabled = value.value])
             ELSE IF key = "params" THEN
                 ParseTriggerLoop(fields, i + 1,
                     [acc EXCEPT !.trigger.m_ParamsJson = ExtractRawJson(value)])
             ELSE ParseTriggerLoop(fields, i + 1, acc)

\* result: [ok, trigger]; triggerOut starts as a default-constructed WorkflowTrigger
ParseTrigger(jsonObject) ==
    LET K(r) == [ok |-> r.ok /\ r.hasType /\ r.hasId, trigger |-> r.trigger]
    IN  K(ParseTriggerLoop(jsonObject.value, 1,
                           [ok |-> TRUE, trigger |-> Trigger("Unknown", "", TRUE, ""),
                            hasType |-> FALSE, hasId |-> FALSE]))

\* the entry loop of ParseTriggers; result: [ok, triggers]
RECURSIVE ParseTriggersLoop(_, _, _)
ParseTriggersLoop(triggerArray, i, triggersOut) ==
    IF i > Len(triggerArray) THEN [ok |-> TRUE, triggers |-> triggersOut]
    ELSE IF triggerArray[i].kind # "object" THEN [ok |-> FALSE, triggers |-> triggersOut]
    ELSE IF ~ParseTrigger(triggerArray[i]).ok THEN [ok |-> FALSE, triggers |-> triggersOut]
    ELSE ParseTriggersLoop(triggerArray, i + 1,
                           Append(triggersOut, ParseTrigger(triggerArray[i]).trigger))

\* result: [ok, triggers]: the parsed entries are pushed onto triggersOut
ParseTriggers(jsonValue, triggersOut) ==
    IF jsonValue.kind # "array" THEN [ok |-> FALSE, triggers |-> triggersOut]
    ELSE ParseTriggersLoop(jsonValue.value, 1, triggersOut)

\* result: [ok, tasks]. The value of "tasks" must be an object; the task entries of the
\* documents of this model are well formed and stand for the TaskDefs they parse to.
ParseTasks(jsonValue, tasksOut) ==
    IF jsonValue.kind # "object" THEN [ok |-> FALSE, tasks |-> tasksOut]
    ELSE [ok |-> TRUE,
          tasks |-> [t \in DOMAIN tasksOut \cup DOMAIN jsonValue.value |->
                        IF t \in DOMAIN jsonValue.value THEN jsonValue.value[t] ELSE tasksOut[t]]]

\* a default-constructed WorkflowDefinition
EmptyDefinition ==
    [m_Id |-> "", m_Version |-> "", m_Triggers |-> <<>>, m_Tasks |-> EmptyMap, m_Dataflows |-> <<>>]

\* the field loop of ParseRootObject; acc = [ok, definition, hasVersion, hasId, hasTasks, hasTriggers]
RECURSIVE ParseRootLoop(_, _, _)
ParseRootLoop(root, i, acc) ==
    IF i > Len(root) THEN acc
    ELSE LET key == root[i].key
             value == root[i].value
         IN  IF key = "version" THEN
                 IF ~ElementToString(value).ok THEN [acc EXCEPT !.ok = FALSE]
                 ELSE IF ElementToString(value).output # "1.0" THEN [acc EXCEPT !.ok = FALSE]
                 ELSE ParseRootLoop(root, i + 1,
                          [acc EXCEPT !.definition.m_Version = ElementToString(value).output,
                                      !.hasVersion = TRUE])
             ELSE IF key = "id" THEN
                 IF ~ElementToString(value).ok THEN [acc EXCEPT !.ok = FALSE]
                 ELSE ParseRootLoop(root, i + 1,
                          [acc EXCEPT !.definition.m_Id = ElementToString(value).output,
                                      !.hasId = TRUE])
             ELSE IF key = "triggers" THEN
                 IF ~ParseTriggers(value, acc.definition.m_Triggers).ok
                 THEN [acc EXCEPT !.ok = FALSE]
                 ELSE ParseRootLoop(root, i + 1,
                          [acc EXCEPT !.definition.m_Triggers =
                                          ParseTriggers(value, acc.definition.m_Triggers).triggers,
                                      !.hasTriggers = TRUE])
             ELSE IF key = "tasks" THEN
                 IF ~ParseTasks(value, acc.definition.m_Tasks).ok
                 THEN [acc EXCEPT !.ok = FALSE]
                 ELSE ParseRootLoop(root, i + 1,
                          [acc EXCEPT !.definition.m_Tasks =
                                          ParseTasks(value, acc.definition.m_Tasks).tasks,
                                      !.hasTasks = TRUE])
             ELSE ParseRootLoop(root, i + 1, acc)

\* result: [ok, definition]
ParseRootObject(root) ==
    LET K(r) ==
            IF ~r.ok \/ ~r.hasVersion \/ ~r.hasId \/ ~r.hasTasks
            THEN [ok |-> FALSE, definition |-> r.definition]
            ELSE IF ~r.hasTriggers
            THEN [ok |-> TRUE,
                  definition |-> [r.definition EXCEPT
                                     !.m_Triggers = Append(@, Trigger("Auto", "auto", TRUE, "{}"))]]
            ELSE [ok |-> TRUE, definition |-> r.definition]
    IN  K(ParseRootLoop(root, 1,
                        [ok |-> TRUE, definition |-> EmptyDefinition, hasVersion |-> FALSE,
                         hasId |-> FALSE, hasTasks |-> FALSE, hasTriggers |-> FALSE]))

\* result: [ok, definition]; the root of a document that is JSON is an object
ParseWorkflowJson(jsonContent) ==
    IF jsonContent.kind = "empty" THEN [ok |-> FALSE, definition |-> EmptyDefinition]
    ELSE IF jsonContent.kind = "invalid" THEN [ok |-> FALSE, definition |-> EmptyDefinition]
    ELSE ParseRootObject(jsonContent.value)

\* WorkflowRegistry::LoadFile on a file with this content; result: [ok, workflows]
LoadFile(workflows, file) ==
    IF ~file.canOpen THEN [ok |-> FALSE, workflows |-> workflows]
    ELSE LET K(parsed) ==
                 IF ~parsed.ok THEN [ok |-> FALSE, workflows |-> workflows]
                 ELSE IF parsed.definition.m_Version # "1.0"
                 THEN [ok |-> FALSE, workflows |-> workflows]
                 ELSE [ok |-> TRUE,
                       workflows |-> MapPut(workflows, parsed.definition.m_Id, parsed.definition)]
         IN  K(ParseWorkflowJson(file.content))

\* the directory_iterator loop of LoadDirectory over the entries in visiting order
RECURSIVE LoadDirectoryLoop(_, _, _)
LoadDirectoryLoop(workflows, entries, i) ==
    IF i > Len(entries) THEN [ok |-> TRUE, workflows |-> workflows]
    ELSE IF ~entries[i].isRegularFile THEN LoadDirectoryLoop(workflows, entries, i + 1)
    ELSE IF entries[i].extension # ".jcwf" THEN LoadDirectoryLoop(workflows, entries, i + 1)
    ELSE IF ~LoadFile(workflows, entries[i]).ok
         THEN [ok |-> FALSE, workflows |-> workflows]
    ELSE LoadDirectoryLoop(LoadFile(workflows, entries[i]).workflows, entries, i + 1)

\* WorkflowRegistry::LoadDirectory; result: [ok, workflows]
LoadDirectory(workflows, exists, entries) ==
    IF ~exists THEN [ok |-> FALSE, workflows |-> workflows]
    ELSE LoadDirectoryLoop(workflows, entries, 1)

\* a regular, readable .jcwf file with this content
File(content) ==
    [isRegularFile |-> TRUE, extension |-> ".jcwf", canOpen |-> TRUE, content |-> content]

Document(version, id, rest) ==
    JsonObject(<<Field("version", JsonString(version)), Field("id", JsonString(id))>> \o rest
               \o <<Field("tasks", JsonObject(WfBuild.m_Tasks))>>)

ManualEntry ==
    JsonObject(<<Field("type", JsonString("manual")), Field("id", JsonString("t1"))>>)

MaxEntries == 3

\* the entries a workflow directory is made of: workflow a without a "triggers" key,
\* workflow b with an empty "triggers" list, a file that is no JSON, a version 2.0
\* workflow c, a text file, and a subdirectory named like a workflow
DirectoryEntries ==
    {File(Document("1.0", "a", <<>>)),
     File(Document("1.0", "b", <<Field("triggers", JsonArray(<<>>))>>)),
     File(NotJson),
     File(Document("2.0", "c", <<>>)),
     [File(NotJson) EXCEPT !.extension = ".txt"],
     [File(Document("1.0", "b", <<>>)) EXCEPT !.isRegularFile = FALSE]}

\* the directories LoadDirectory is called on, their entries in visiting order
Directories ==
    {[exists |-> FALSE, entries |-> <<>>]}
    \cup {[exists |-> TRUE, entries |-> e] :
             e \in UNION {[1..n -> DirectoryEntries] : n \in 0..MaxEntries}}

\* the "version", "id" and "tasks" fields of the documents handed to the parser: absent,
\* of the right type, of the wrong type
VersionFields ==
    << <<>>, <<Field("version", JsonString("1.0"))>>, <<Field("version", JsonString("2.0"))>>,
       <<Field("version", JsonNumberOf("1.0"))>>, <<Field("version", JsonNull)>> >>

IdFields ==
    << <<>>, <<Field("id", JsonString("a"))>>, <<Field("id", JsonNumberOf("7"))>>,
       <<Field("id", JsonArray(<<>>))>> >>

TasksFields ==
    << <<>>, <<Field("tasks", JsonObject(EmptyMap))>>, <<Field("tasks", JsonObject(WfBuild.m_Tasks))>>,
       <<Field("tasks", JsonArray(<<>>))>> >>

\* the "triggers" fields handed to the parser
TriggersFields ==
    << <<>>,
       <<Field("triggers", JsonArray(<<>>))>>,
       <<Field("triggers", JsonNull)>>,
       <<Field("triggers", JsonArray(<<JsonNumberOf("1")>>))>>,
       <<Field("triggers", JsonArray(<<ManualEntry>>))>>,
       <<Field("triggers",
               JsonArray(<<ManualEntry,
                           JsonObject(<<Field("id", JsonString("t2")),
                                        Field("type", JsonString("cron")),
                                        Field("enabled", JsonBool(FALSE)),
                                        Field("params", JsonObject(<<>>))>>)>>))>>,
       <<Field("triggers",
               JsonArray(<<JsonObject(<<Field("type", JsonString("timer")),
                                        Field("id", JsonNumberOf("7")),
                                        Field("note", JsonString("x"))>>)>>))>>,
       <<Field("triggers", JsonArray(<<JsonObject(<<Field("id", JsonString("t1"))>>)>>))>>,
       <<Field("triggers", JsonArray(<<JsonObject(<<Field("type", JsonString("auto"))>>)>>))>>,
       <<Field("triggers",
               JsonArray(<<JsonObject(<<Field("type", JsonNull),
                                        Field("id", JsonString("t1"))>>)>>))>>,
       <<Field("triggers",
               JsonArray(<<JsonObject(<<Field("type", JsonString("manual")),
                                        Field("id", JsonArray(<<>>))>>)>>))>>,
       <<Field("triggers",
               JsonArray(<<ManualEntry,
                           JsonObject(<<Field("type", JsonString("file_watch")),
                                        Field("id", JsonString("t2")),
                                        Field("enabled", JsonNumberOf("1"))>>)>>))>> >>

\* the documents handed to the parser: an empty text, a text that is no JSON, an object
\* with its keys in the usual order, and one with other keys, another order and
\* "triggers" twice
ParserDocument(shape, v, i, tr, ta) ==
    IF shape = "empty" THEN EmptyContent
    ELSE IF shape = "invalid" THEN NotJson
    ELSE IF shape = "ordered"
         THEN JsonObject(VersionFields[v] \o IdFields[i] \o TriggersFields[tr] \o TasksFields[ta])
    ELSE JsonObject(TasksFields[ta] \o <<Field("label", JsonString("x"))>> \o TriggersFields[tr]
                    \o IdFields[i] \o VersionFields[v] \o TriggersFields[tr])

InitLoad ==
    /\ m_Workflows = EmptyMap
    /\ InitCommon
    /\ mtime = [p \in Files |-> 1]
    /\ clock = 1

\* a call of WorkflowRegistry::LoadDirectory
CallLoadDirectory ==
    /\ \E directory \in Directories :
          LET K(r) ==
                  /\ m_Workflows' = r.workflows
                  /\ probe' = [fn |-> "WorkflowRegistry::LoadDirectory", before |-> m_Workflows,
                               directory |-> directory, result |-> r.ok]
          IN  K(LoadDirectory(m_Workflows, directory.exists, directory.entries))
    /\ UNCHANGED <<triggerVars, validateResult, m_LastRuns, run, pc, iterOrder, scanIdx,
                   readyTasks, futures, joinIdx, madeProgress, worker, mtime, clock, waveNo,
                   waveOf, callCount, lastCall>>

\* a call of WorkflowRegistry::LoadFile: on a file of the directory, or on the file of
\* workflow a after a manual trigger was added to it; the file may have become unreadable
CallLoadFile ==
    /\ \E entry \in DirectoryEntries
                    \cup {File(Document("1.0", "a", <<Field("triggers", JsonArray(<<ManualEntry>>))>>))},
          canOpen \in BOOLEAN :
          LET file == [entry EXCEPT !.canOpen = canOpen]
              K(r) ==
                  /\ m_Workflows' = r.workflows
                  /\ probe' = [fn |-> "WorkflowRegistry::LoadFile", before |-> m_Workflows,
                               file |-> file, result |-> r.ok]
          IN  K(LoadFile(m_Workflows, file))
    /\ UNCHANGED <<triggerVars, validateResult, m_LastRuns, run, pc, iterOrder, scanIdx,
                   readyTasks, futures, joinIdx, madeProgress, worker, mtime, clock, waveNo,
                   waveOf, callCount, lastCall>>

\* a call of WorkflowJsonParser::ParseWorkflowJson
CallParseWorkflowJson ==
    /\ probe = NoProbe
    /\ \E shape \in {"empty", "invalid", "ordered", "shuffled"},
          v \in DOMAIN VersionFields, i \in DOMAIN IdFields,
          tr \in DOMAIN TriggersFields, ta \in DOMAIN TasksFields :
          LET K(jsonContent) ==
                  probe' = [fn |-> "WorkflowJsonParser::ParseWorkflowJson",
                            jsonContent |-> jsonContent, out |-> ParseWorkflowJson(jsonContent)]
          IN  K(ParserDocument(shape, v, i, tr, ta))
    /\ UNCHANGED <<triggerVars, m_Workflows, validateResult, m_LastRuns, run, pc, iterOrder,
                   scanIdx, readyTasks, futures, joinIdx, madeProgress, worker, mtime, clock,
                   waveNo, waveOf, callCount, lastCall>>

NextLoad == CallLoadDirectory \/ CallLoadFile \/ CallParseWorkflowJson

SpecLoad == InitLoad /\ [][NextLoad]_vars

-----------------------------------------------------------------------------
(* Properties *)

\* a run is in progress: RunWorkflowOnce has been entered and has not returned
InRun == pc \in {"scan", "submit", "join"}

StateOf(taskStates, t) == taskStates[t].m_State

\* every id of the depends_on list of a task is the id of a task that is Succeeded or
\* Skipped
DepsDone(taskStates, taskDefinition) ==
    \A d \in Range(taskDefinition.m_DependsOn) :
        d \in DOMAIN taskStates /\ StateOf(taskStates, d) \in {Succeeded, Skipped}

C1_ReadyListDepsDone ==
    InRun => \A i \in 1..Len(readyTasks) :
                 DepsDone(run.m_TaskStates, Def.m_Tasks[readyTasks[i]])

C1_StepDepsDone ==
    (InRun /\ pc' \in {"scan", "submit", "join"}) =>
        \A t \in DOMAIN run.m_TaskStates :
            (/\ StateOf(run.m_TaskStates, t) \notin {Running, Skipped}
             /\ StateOf(run'.m_TaskStates, t) \in {Running, Skipped})
                => DepsDone(run.m_TaskStates, Def.m_Tasks[t])

\* C1: a task is put on the ready list, moved to Running or marked Skipped only when
\* every task of its depends_on list is Succeeded or Skipped; with a dependency that
\* is Pending, Ready, Running or Failed it is neither dispatched nor skipped
C1_DispatchOnlyWhenDepsDone == []C1_ReadyListDepsDone /\ [][C1_StepDepsDone]_vars

\* C1 witness: a task with dependencies is Running, behind a dependency that was
\* skipped in an earlier wave
C1_DependentRunning ==
    /\ InRun
    /\ \E t \in DOMAIN run.m_TaskStates :
          /\ StateOf(run.m_TaskStates, t) = Running
          /\ \E d \in Range(Def.m_Tasks[t].m_DependsOn) : StateOf(run.m_TaskStates, d) = Skipped

WorkerReturned(t) == worker[t] \in {"true", "false", "exception"}

\* C2: when the driver scans, every task submitted in an earlier wave has returned its
\* future and is Succeeded, Skipped or Failed; a task is Running, and a worker is at
\* work, only for the wave in progress
C2_JoinBarrier ==
    /\ pc = "scan" => \A t \in DOMAIN worker :
                          WorkerReturned(t) /\ StateOf(run.m_TaskStates, t) \in Terminal
    /\ \A t \in DOMAIN worker : ~WorkerReturned(t) => waveOf[t] = waveNo
    /\ \A t \in DOMAIN run.m_TaskStates :
          StateOf(run.m_TaskStates, t) = Running => waveOf[t] = waveNo /\ pc \in {"submit", "join"}

\* C2 witness: a task of the second wave is at work after the two tasks of the first
\* wave have returned
C2_SecondWaveAtWork ==
    /\ pc = "join"
    /\ waveNo = 2
    /\ \E t \in DOMAIN worker : worker[t] = "exec" /\ waveOf[t] = 2
    /\ \E t, u \in DOMAIN worker :
          /\ t # u
          /\ waveOf[t] = 1 /\ WorkerReturned(t)
          /\ waveOf[u] = 1 /\ WorkerReturned(u)

\* C3 as stated: every task of a completed run is Succeeded, Skipped or Failed
C3_AllTerminalAtCompletion ==
    \A w \in DOMAIN m_LastRuns :
        \A t \in DOMAIN m_LastRuns[w].m_TaskStates :
            StateOf(m_LastRuns[w].m_TaskStates, t) \in Terminal

\* C3 amended: a completed run holds no task that is Ready or Running; a task is
\* left Pending only in a run whose has_failed is set, and only behind a dependency
\* that is Failed, Pending or no task of the workflow
C3_CompletedRunStates ==
    \A w \in DOMAIN m_LastRuns :
        LET r == m_LastRuns[w] IN
        /\ r.m_IsCompleted
        /\ \A t \in DOMAIN r.m_TaskStates :
              /\ StateOf(r.m_TaskStates, t) \in Terminal \cup {Pending}
              /\ StateOf(r.m_TaskStates, t) = Pending =>
                    /\ r.m_HasFailed
                    /\ \E d \in Range(m_Workflows[w].m_Tasks[t].m_DependsOn) :
                          \/ d \notin DOMAIN r.m_TaskStates
                          \/ StateOf(r.m_TaskStates, d) \in {Failed, Pending}

\* C3 witness: a completed run with a Failed task and a Pending task behind it
C3_PendingBehindFailed ==
    \E w \in DOMAIN m_LastRuns :
        \E t, d \in DOMAIN m_LastRuns[w].m_TaskStates :
            /\ d \in Range(m_Workflows[w].m_Tasks[t].m_DependsOn)
            /\ StateOf(m_LastRuns[w].m_TaskStates, d) = Failed
            /\ StateOf(m_LastRuns[w].m_TaskStates, t) = Pending

NumTasks(r) == Cardinality(DOMAIN r.m_TaskStates)

C4_WaveBound ==
    /\ InRun => waveNo <= NumTasks(run) + 1
    /\ lastCall.known => lastCall.run.m_IsCompleted /\ lastCall.waves <= NumTasks(lastCall.run) + 1

\* C4: a run that has been entered returns, with the run marked completed, after at
\* most (number of tasks + 1) waves, when the driver and the workers keep running and
\* every executor call returns
C4_RunTerminates == []C4_WaveBound /\ (InRun ~> (pc = "idle" /\ lastCall.run.m_IsCompleted))

\* C4 witness: a call has returned after a wave without progress, with tasks left
\* Pending on a cycle
C4_ReturnedFromDeadlock ==
    /\ pc = "idle"
    /\ lastCall.known
    /\ lastCall.run.m_IsCompleted
    /\ lastCall.waves = 2
    /\ \E t \in DOMAIN lastCall.run.m_TaskStates :
          /\ StateOf(lastCall.run.m_TaskStates, t) = Pending
          /\ StateOf(lastCall.run.m_TaskStates, m_Workflows[lastCall.wf].m_Tasks[t].m_DependsOn[1])
                = Pending

AllDone(r) ==
    \A t \in DOMAIN r.m_TaskStates : StateOf(r.m_TaskStates, t) \in {Succeeded, Skipped}

\* C5: a call for a known workflow returns true iff every task ended Succeeded or
\* Skipped; has_failed is set iff some task ended Failed or was left non-terminal,
\* and the call returns false exactly then
C5_ResultIffAllDone ==
    lastCall.known =>
        /\ lastCall.result <=> AllDone(lastCall.run)
        /\ lastCall.run.m_HasFailed <=>
              \E t \in DOMAIN lastCall.run.m_TaskStates :
                  StateOf(lastCall.run.m_TaskStates, t) \in {Failed, Pending, Ready, Running}
        /\ ~lastCall.result <=> lastCall.run.m_HasFailed

\* C5 witness: a call has returned true for a run with a Skipped and a Succeeded task
C5_TrueWithSkipped ==
    /\ lastCall.known
    /\ lastCall.result
    /\ \E t, u \in DOMAIN lastCall.run.m_TaskStates :
          /\ StateOf(lastCall.run.m_TaskStates, t) = Skipped
          /\ StateOf(lastCall.run.m_TaskStates, u) = Succeeded

C6_CacheState ==
    \A w \in DOMAIN m_LastRuns :
        /\ w \in DOMAIN m_Workflows
        /\ m_LastRuns[w].m_WorkflowId = w
        /\ m_LastRuns[w].m_IsCompleted

C6_CacheStep ==
    IF InRun /\ pc' = "idle"
    THEN /\ run.m_WorkflowId \in DOMAIN m_LastRuns'
         /\ m_LastRuns'[run.m_WorkflowId] = lastCall'.run
         /\ lastCall'.wf = run.m_WorkflowId
         /\ lastCall'.run.m_RunId = <<run.m_WorkflowId, "_", callCount>>
         /\ \A v \in (DOMAIN m_LastRuns \cup DOMAIN m_LastRuns') \ {run.m_WorkflowId} :
               /\ v \in DOMAIN m_LastRuns /\ v \in DOMAIN m_LastRuns'
               /\ m_LastRuns'[v] = m_LastRuns[v]
    ELSE /\ m_LastRuns' = m_LastRuns
         /\ (pc = "idle" /\ callCount' # callCount /\ pc' = "idle") =>
               ~lastCall'.known /\ ~lastCall'.result

\* C6: the cache maps a workflow id to one run; the return of a call for a known
\* workflow replaces the entry of that workflow by the run of that call, whatever the
\* result, and leaves the other entries alone; no other step, a call with an unknown
\* id included, changes the cache, and such a call returns false
C6_LastRunCache == []C6_CacheState /\ [][C6_CacheStep]_vars

\* C6 witness: the failed run of the second call has replaced the run of the first
\* call in the cache, which holds nothing else
C6_SecondRunCached ==
    /\ pc = "idle"
    /\ callCount = 2
    /\ lastCall.known
    /\ DOMAIN m_LastRuns = {lastCall.wf}
    /\ m_LastRuns[lastCall.wf].m_RunId = <<lastCall.wf, "_", 2>>
    /\ m_LastRuns[lastCall.wf].m_HasFailed
    /\ \E t \in DOMAIN lastCall.run.m_TaskStates :
          StateOf(lastCall.run.m_TaskStates, t) = Skipped

\* a workflow that fails a check of ValidateWorkflow
Invalid(wf) == \E taskOrder \in Orders(DOMAIN wf.m_Tasks) : ValidateWorkflow(wf, taskOrder) # "true"

NeverDispatched(r) ==
    \A t \in DOMAIN r.m_TaskStates :
        r.m_TaskStates[t].m_State = Pending /\ r.m_TaskStates[t].m_AttemptCount = 0

\* C7 as stated: a call for a workflow that fails a validation check dispatches no
\* task and returns false
C7_InvalidWorkflowRefused ==
    /\ (InRun /\ Invalid(Def)) => NeverDispatched(run) /\ worker = EmptyMap
    /\ (lastCall.known /\ Invalid(m_Workflows[lastCall.wf])) =>
          ~lastCall.result /\ NeverDispatched(lastCall.run)

\* C7 witness: a call for a workflow with an untyped output slot has run its task and
\* returned true
C7_InvalidWorkflowRan ==
    /\ validateResult = "false"
    /\ lastCall.known
    /\ lastCall.result
    /\ ~ValidateTasks(m_Workflows[lastCall.wf])
    /\ \E t \in DOMAIN lastCall.run.m_TaskStates :
          /\ StateOf(lastCall.run.m_TaskStates, t) = Succeeded
          /\ lastCall.run.m_TaskStates[t].m_AttemptCount = 1

DepsOf(wf, S) == UNION {Range(wf.m_Tasks[t].m_DependsOn) : t \in S \cap DOMAIN wf.m_Tasks}

\* the tasks reached from the tasks S along depends_on, S included
RECURSIVE ReachableFrom(_, _)
ReachableFrom(wf, S) ==
    IF DepsOf(wf, S) \subseteq S THEN S ELSE ReachableFrom(wf, S \cup DepsOf(wf, S))

OnCycle(wf, t) == t \in ReachableFrom(wf, DepsOf(wf, {t}))

HasCycle(wf) == \E t \in DOMAIN wf.m_Tasks : OnCycle(wf, t)

\* C8 as stated: with a workflow whose depends_on graph has a cycle in the registry
\* ValidateAll returns false, and a call for that workflow executes none of its tasks
\* and returns false
C8_CyclicWorkflowRefused ==
    /\ (pc \notin {"boot", "crashed"} /\ \E w \in DOMAIN m_Workflows : HasCycle(m_Workflows[w])) =>
          validateResult = "false"
    /\ (InRun /\ HasCycle(Def)) => NeverDispatched(run) /\ worker = EmptyMap
    /\ (lastCall.known /\ HasCycle(m_Workflows[lastCall.wf])) =>
          ~lastCall.result /\ NeverDispatched(lastCall.run)

\* C8 witness: a call for a workflow with a cycle has executed the task outside the
\* cycle, left the tasks on the cycle Pending and returned false
C8_TaskOutsideCycleRan ==
    /\ validateResult = "false"
    /\ lastCall.known
    /\ ~lastCall.result
    /\ HasCycle(m_Workflows[lastCall.wf])
    /\ \E t \in DOMAIN lastCall.run.m_TaskStates :
          /\ ~OnCycle(m_Workflows[lastCall.wf], t)
          /\ StateOf(lastCall.run.m_TaskStates, t) = Succeeded
    /\ \A t \in DOMAIN lastCall.run.m_TaskStates :
          OnCycle(m_Workflows[lastCall.wf], t) => StateOf(lastCall.run.m_TaskStates, t) = Pending

TriggerIdsUnique(wf) ==
    \A i, j \in 1..Len(wf.m_Triggers) : i # j => wf.m_Triggers[i].m_Id # wf.m_Triggers[j].m_Id

NoUnknownTrigger(wf) == \A i \in 1..Len(wf.m_Triggers) : wf.m_Triggers[i].m_Type # "Unknown"

CronHasParams(wf) ==
    \A i \in 1..Len(wf.m_Triggers) :
        wf.m_Triggers[i].m_Type = "Cron" => wf.m_Triggers[i].m_ParamsJson # ""

DependsOnExist(wf) == DepsOf(wf, DOMAIN wf.m_Tasks) \subseteq DOMAIN wf.m_Tasks

EdgeTasksExist(wf) ==
    \A i \in 1..Len(wf.m_Dataflows) :
        wf.m_Dataflows[i].m_FromTask \in DOMAIN wf.m_Tasks
        /\ wf.m_Dataflows[i].m_ToTask \in DOMAIN wf.m_Tasks

EdgeSlotsDeclared(wf) ==
    \A i \in 1..Len(wf.m_Dataflows) :
        LET df == wf.m_Dataflows[i] IN
        /\ df.m_FromTask \in DOMAIN wf.m_Tasks =>
              df.m_FromOutput \in DOMAIN wf.m_Tasks[df.m_FromTask].m_Outputs
        /\ df.m_ToTask \in DOMAIN wf.m_Tasks =>
              df.m_ToInput \in DOMAIN wf.m_Tasks[df.m_ToTask].m_Inputs

\* the conditions the claim lists
ListedConditions(wf) ==
    /\ TriggerIdsUnique(wf)
    /\ NoUnknownTrigger(wf)
    /\ CronHasParams(wf)
    /\ DependsOnExist(wf)
    /\ EdgeTasksExist(wf)
    /\ EdgeSlotsDeclared(wf)
    /\ ~HasCycle(wf)

\* every required input slot and every output slot has a type
SlotsTyped(wf) ==
    \A t \in DOMAIN wf.m_Tasks :
        /\ \A n \in DOMAIN wf.m_Tasks[t].m_Inputs :
              wf.m_Tasks[t].m_Inputs[n].m_IsRequired => wf.m_Tasks[t].m_Inputs[n].m_Type # ""
        /\ \A n \in DOMAIN wf.m_Tasks[t].m_Outputs : wf.m_Tasks[t].m_Outputs[n].m_Type # ""

RequiredInputsSupplied(wf) ==
    \A t \in DOMAIN wf.m_Tasks :
        \A n \in DOMAIN wf.m_Tasks[t].m_Inputs :
            wf.m_Tasks[t].m_Inputs[n].m_IsRequired =>
                \E i \in 1..Len(wf.m_Dataflows) :
                    wf.m_Dataflows[i].m_ToTask = t /\ wf.m_Dataflows[i].m_ToInput = n

\* C10 as stated: when ValidateAll returns true, every required input slot of every
\* task of every workflow has a dataflow edge that ends in it
C10_RequiredInputsHaveEdges ==
    (pc # "boot" /\ validateResult = "true") =>
        \A w \in DOMAIN m_Workflows : RequiredInputsSupplied(m_Workflows[w])

\* C10 witness: ValidateAll has returned true for a workflow without dataflow edges
\* whose task b has a required input slot
C10_ValidWithoutEdge ==
    /\ pc = "idle"
    /\ validateResult = "true"
    /\ \E w \in DOMAIN m_Workflows :
          /\ m_Workflows[w].m_Dataflows = <<>>
          /\ ~RequiredInputsSupplied(m_Workflows[w])


-----------------------------------------------------------------------------
(* C11: the up-to-date decision *)

\* the tasks reached from t along depends_on, t itself left out
TransitiveDependencies(wf, t) == ReachableFrom(wf, DepsOf(wf, {t}))

\* the output paths of the transitive dependencies of t
UpstreamPaths(wf, t) ==
    UNION {Range(wf.m_Tasks[d].m_FileOutputs) : d \in TransitiveDependencies(wf, t) \cap DOMAIN wf.m_Tasks}

\* the make-style decision over the declared inputs and the outputs of the transitive
\* dependencies: every file named exists and no output is older than any of them
MakeUpToDate(wf, mt, t) ==
    LET ins == Range(wf.m_Tasks[t].m_FileInputs) \cup UpstreamPaths(wf, t)
        outs == Range(wf.m_Tasks[t].m_FileOutputs)
    IN /\ outs # {}
       /\ \A p \in ins \cup outs : Exists(mt, p)
       /\ \A o \in outs : \A i \in ins : mt[o] >= mt[i]

\* C11 as stated: for a task with at least one declared input or upstream output,
\* IsTaskUpToDate returns true iff every output exists and the oldest output is not
\* older than the newest file among the declared inputs and the outputs of the
\* transitive dependencies, the task's own outputs not being part of that set
C11_UpToDateIffMakeRule ==
    (/\ probe.fn = "IsTaskUpToDate"
     /\ Range(m_Workflows["fresh"].m_Tasks[probe.task].m_FileInputs)
          \cup UpstreamPaths(m_Workflows["fresh"], probe.task) # {}) =>
        (probe.result <=> MakeUpToDate(m_Workflows["fresh"], mtime, probe.task))

\* a task with the input a.c (time 1) and the outputs a.o (time 2) and app (time 3), all
\* newer than the input, is reported as not up to date
C11_TwoOutputsNotUpToDate ==
    /\ probe.fn = "IsTaskUpToDate"
    /\ probe.task = "a"
    /\ m_Workflows["fresh"].m_Tasks["a"].m_FileInputs = <<Lit("a.c")>>
    /\ m_Workflows["fresh"].m_Tasks["a"].m_FileOutputs = <<Lit("a.o"), Lit("app")>>
    /\ mtime[Lit("a.c")] = 1 /\ mtime[Lit("a.o")] = 2 /\ mtime[Lit("app")] = 3
    /\ ~probe.result

-----------------------------------------------------------------------------
(* C12: a task is skipped only when it is up to date *)

\* the resolved output paths of the transitive dependencies of t; unresolved if one of
\* them is not a declared task or has a path that does not resolve
UpstreamResolved(wf, taskStates, ords, t) ==
    \A d \in TransitiveDependencies(wf, t) :
        ResolveUpstreamOutputs(wf, taskStates, ords, d).ok

UpstreamResolvedPaths(wf, taskStates, ords, t) ==
    UNION {Range(ResolveUpstreamOutputs(wf, taskStates, ords, d).outs) :
              d \in TransitiveDependencies(wf, t)}

\* the paths of t resolve, it has an output, every file named by t or as an output of
\* a transitive dependency exists, and no output of t is older than any of them
SkipJustified(wf, taskStates, ords, mt, t) ==
    LET r == ResolveFreshnessPathsForTask(wf, taskStates, wf.m_Tasks[t], t, ords[t])
        ins == Range(r.ins) \cup UpstreamResolvedPaths(wf, taskStates, ords, t)
    IN /\ r.ok
       /\ r.outs # <<>>
       /\ UpstreamResolved(wf, taskStates, ords, t)
       /\ \A p \in ins \cup Range(r.outs) : Exists(mt, p)
       /\ \A o \in Range(r.outs) : \A i \in ins : mt[o] >= mt[i]

C12_SkipStep ==
    \A t \in DOMAIN run.m_TaskStates :
        (/\ pc = "scan"
         /\ t \in DOMAIN run'.m_TaskStates
         /\ StateOf(run.m_TaskStates, t) # Skipped
         /\ StateOf(run'.m_TaskStates, t) = Skipped) =>
            /\ t \in DOMAIN Def.m_Tasks
            /\ \E ords \in InputOrders(Def) :
                  SkipJustified(Def, run.m_TaskStates, ords, mtime, t)

\* C12: whenever the scan marks a task Skipped, at that moment its file_inputs and
\* file_outputs resolve, it has at least one output, all those files and all outputs
\* of its transitive dependencies exist, and its oldest output is not older than the
\* newest of its inputs and of those upstream outputs
C12_SkippedOnlyWhenUpToDate == [][C12_SkipStep]_vars

\* link of the workflow build has been skipped behind the skipped compile
C12_LinkSkipped ==
    /\ InRun
    /\ run.m_WorkflowId = "build"
    /\ StateOf(run.m_TaskStates, "compile") = Skipped
    /\ StateOf(run.m_TaskStates, "link") = Skipped

-----------------------------------------------------------------------------
(* C13: a run over unchanged, up-to-date files *)

\* every task of wf declares a file output, every file named by wf exists, and no
\* output of a task is older than an input of the task or an output of one of its
\* transitive dependencies (the paths of wf are literal)
AllUpToDate(wf, mt) ==
    \A t \in DOMAIN wf.m_Tasks :
        /\ wf.m_Tasks[t].m_FileOutputs # <<>>
        /\ MakeUpToDate(wf, mt, t)

\* every dataflow edge of wf finds its from_output in the output values of its source
EdgesResolve(wf, taskStates) ==
    \A i \in 1..Len(wf.m_Dataflows) :
        /\ wf.m_Dataflows[i].m_FromTask \in DOMAIN taskStates
        /\ wf.m_Dataflows[i].m_FromOutput
              \in DOMAIN taskStates[wf.m_Dataflows[i].m_FromTask].m_OutputValues

\* C13 as stated: for a valid workflow all of whose tasks are up to date, a call of
\* RunWorkflowOnce dispatches no task to an executor, and it returns true with every
\* task Skipped and with output values from which every dataflow edge resolves
C13_RerunIdempotent ==
    /\ (/\ pc = "submit"
        /\ validateResult = "true"
        /\ \A t \in DOMAIN waveOf : waveOf[t] = 0) => ~AllUpToDate(Def, mtime)
    /\ (/\ pc = "idle"
        /\ lastCall.known
        /\ validateResult = "true"
        /\ \A t \in DOMAIN lastCall.run.m_TaskStates :
              lastCall.run.m_TaskStates[t].m_AttemptCount = 0
        /\ AllUpToDate(m_Workflows[lastCall.wf], mtime)) =>
           /\ lastCall.result
           /\ \A t \in DOMAIN lastCall.run.m_TaskStates :
                 StateOf(lastCall.run.m_TaskStates, t) = Skipped
           /\ EdgesResolve(m_Workflows[lastCall.wf], lastCall.run.m_TaskStates)

\* gen, whose outputs a.o (time 2) and app (time 3) are both newer than its input a.c
\* (time 1), is about to be dispatched
C13_UpToDateTaskDispatched ==
    /\ pc = "submit"
    /\ run.m_WorkflowId = "twoout"
    /\ validateResult = "true"
    /\ readyTasks = <<"gen">>
    /\ waveOf["gen"] = 0
    /\ mtime[Lit("a.c")] = 1 /\ mtime[Lit("a.o")] = 2 /\ mtime[Lit("app")] = 3

-----------------------------------------------------------------------------
(* C14: the skip-population rule *)

\* the path a file_outputs entry of t stands for, <<>> if it does not resolve: a
\* template over the input x takes the value of up.rows, and t has no output values
\* of its own
RulePath(entry, upOut) ==
    IF entry = <<"${", "inputs.", "x", "}">>
    THEN (IF Lit("rows") \in DOMAIN upOut THEN upOut[Lit("rows")] ELSE <<>>)
    ELSE IF entry = <<"${", "outputs.", "obj", "}">> THEN <<>>
    ELSE entry

\* the rule: S the sorted slot names, P the resolved paths
RuleOutputValues(S, P) ==
    IF Len(S) = 0 \/ \E i \in 1..Len(P) : P[i] = <<>> THEN EmptyMap
    ELSE IF Len(S) = Len(P) THEN [k \in Range(S) |-> P[CHOOSE i \in 1..Len(S) : S[i] = k]]
    ELSE IF Len(P) = 1 THEN [k \in Range(S) |-> P[1]]
    ELSE IF Len(S) = 1 /\ Len(P) >= 1 THEN S[1] :> P[1]
    ELSE EmptyMap

\* C14: the output values of a skipped task are those of the rule: S[i] -> P[i] if
\* |S| = |P|, every slot -> P[0] if |P| = 1, S[0] -> P[0] if |S| = 1, and none in
\* every other case, an empty S and an unresolved file_outputs template included
C14_SkipPopulationRule ==
    probe.fn = "PopulateSkippedTaskOutputsIfPossible" =>
        LET def == m_Workflows["out"].m_Tasks["t"] IN
        probe.result =
            RuleOutputValues(SortAsc(DOMAIN def.m_Outputs),
                             [i \in 1..Len(def.m_FileOutputs) |->
                                 RulePath(def.m_FileOutputs[i], probe.upOut)])

\* two slots and two paths, the second a template: binary -> app, object -> a.c
C14_ZippedWithTemplate ==
    /\ probe.fn = "PopulateSkippedTaskOutputsIfPossible"
    /\ m_Workflows["out"].m_Tasks["t"].m_FileOutputs = <<Lit("app"), <<"${", "inputs.", "x", "}">>>>
    /\ probe.result = (Lit("binary") :> Lit("app")) @@ (Lit("object") :> Lit("a.c"))

-----------------------------------------------------------------------------
(* C15: output values of an executed task and of a skipped task *)

\* C15 as stated: the output values of a task after a successful run of the shell
\* executor are the output values that the skip-population gives the same task
C15_ShellEqualsSkipPopulation ==
    probe.fn = "ShellTaskExecutor::Execute" =>
        \A ords \in InputOrders(m_Workflows["out"]) :
            probe.result =
                PopulateSkippedTaskOutputsIfPossible(
                    m_Workflows["out"], OutTaskStates(m_Workflows["out"], probe.upOut),
                    m_Workflows["out"].m_Tasks["t"], "t", ords["t"])

\* t with the slots binary and object and the one output file app: after the shell
\* executor both slots are without a value, where skipping gives both the value app
C15_ExecutedSlotsEmpty ==
    /\ probe.fn = "ShellTaskExecutor::Execute"
    /\ DOMAIN m_Workflows["out"].m_Tasks["t"].m_Outputs = {Lit("binary"), Lit("object")}
    /\ m_Workflows["out"].m_Tasks["t"].m_FileOutputs = <<Lit("app")>>
    /\ probe.result = EmptyMap
    /\ \A ords \in InputOrders(m_Workflows["out"]) :
          PopulateSkippedTaskOutputsIfPossible(
              m_Workflows["out"], OutTaskStates(m_Workflows["out"], probe.upOut),
              m_Workflows["out"].m_Tasks["t"], "t", ords["t"])
            = (Lit("binary") :> Lit("app")) @@ (Lit("object") :> Lit("app"))

-----------------------------------------------------------------------------
(* C16: inputs are resolved from the first matching dataflow edge *)

\* the position of the first dataflow edge into the input slot n of t, 0 if none
FirstEdge(wf, t, n) ==
    LET matching == {i \in 1..Len(wf.m_Dataflows) :
                        wf.m_Dataflows[i].m_ToTask = t /\ wf.m_Dataflows[i].m_ToInput = n}
    IN IF matching = {} THEN 0 ELSE SetMin(matching)

\* the first edge into n exists and its source has a state with a value for from_output
FirstEdgeSupplies(wf, taskStates, t, n) ==
    /\ FirstEdge(wf, t, n) # 0
    /\ wf.m_Dataflows[FirstEdge(wf, t, n)].m_FromTask \in DOMAIN taskStates
    /\ wf.m_Dataflows[FirstEdge(wf, t, n)].m_FromOutput
          \in DOMAIN taskStates[wf.m_Dataflows[FirstEdge(wf, t, n)].m_FromTask].m_OutputValues

FirstEdgeValue(wf, taskStates, t, n) ==
    taskStates[wf.m_Dataflows[FirstEdge(wf, t, n)].m_FromTask].m_OutputValues[
        wf.m_Dataflows[FirstEdge(wf, t, n)].m_FromOutput]

-----------------------------------------------------------------------------
(* C17: the resolved inputs and the order of the template expansion *)

\* C17 as stated: the result of ResolveInputsForTask is the same for every order in
\* which the expansion of step 2 visits the input slots
C17_ExpansionOrderIndependent ==
    probe.fn = "ResolveInputsForTask" =>
        \A ord \in Orders(DOMAIN m_Workflows["res"].m_Tasks["t"].m_Inputs) :
            ResolveInputsForTask(m_Workflows["res"], probe.states,
                                 m_Workflows["res"].m_Tasks["t"], "t", ord) = probe.result

\* x takes ${inputs.y} from p.rows, y takes pre/${inputs.z} from p.obj and z takes a.o
\* from q.obj: x has been expanded before y and holds pre/${inputs.z}, where the order
\* y, x, z gives it pre/a.o
C17_NestedTemplateLeftUnexpanded ==
    /\ probe.fn = "ResolveInputsForTask"
    /\ m_Workflows["res"].m_Dataflows =
          <<Edge("p", Lit("rows"), "t", Lit("x")), Edge("p", Lit("obj"), "t", Lit("y")),
            Edge("q", Lit("obj"), "t", Lit("z"))>>
    /\ DOMAIN m_Workflows["res"].m_Tasks["t"].m_Inputs = ResInputNames
    /\ probe.result.ok
    /\ probe.result.vals[Lit("x")] = <<"pre/", "${", "inputs.", "z", "}">>
    /\ ResolveInputsForTask(m_Workflows["res"], probe.states, m_Workflows["res"].m_Tasks["t"],
                            "t", <<Lit("y"), Lit("x"), Lit("z")>>).vals[Lit("x")]
         = <<"pre/", "a.o">>

-----------------------------------------------------------------------------
(* C18, C19: the task states a worker reads while it resolves the inputs of its task *)

\* the tasks whose state TryResolveFromDataflowEdges looks up for the inputs of t: the
\* sources of the first matching edges
SourcesRead(wf, t) ==
    {wf.m_Dataflows[FirstEdge(wf, t, n)].m_FromTask :
        n \in {k \in DOMAIN wf.m_Tasks[t].m_Inputs : FirstEdge(wf, t, k) # 0}}

\* the worker of t makes its step from "queued": ExecuteTaskInstance up to the executor
\* call, input resolution included
WorkerResolves(t) == t \in DOMAIN worker /\ worker[t] = "queued" /\ worker'[t] # "queued"

\* a pool worker has the task u: submitted in the wave in progress and not returned
ExecutedByWorker(u) == u \in DOMAIN worker /\ worker[u] \in {"queued", "exec"}

C18_ResolveStep ==
    (InRun /\ validateResult = "true") =>
        \A t \in DOMAIN worker : WorkerResolves(t) =>
            \A u \in SourcesRead(Def, t) \ {t} : ~ExecutedByWorker(u)

\* C18 as stated: in a run of a valid workflow no worker, while it resolves the inputs
\* of its task, reads the state of another task that a different worker of the same
\* wave is executing
C18_WorkerReadsNoConcurrentState == [][C18_ResolveStep]_vars

\* the worker of b has resolved (and failed to resolve) the input of b from the state
\* of a while a was queued on another worker
C18_ReadWhileSourceQueued ==
    /\ InRun
    /\ run.m_WorkflowId = "cross"
    /\ validateResult = "true"
    /\ "a" \in DOMAIN worker /\ worker["a"] = "queued"
    /\ "b" \in DOMAIN worker /\ worker["b"] = "false"
    /\ waveOf["a"] = waveOf["b"]

C19_ResolveStep ==
    (InRun /\ validateResult = "true") =>
        \A t \in DOMAIN worker : WorkerResolves(t) =>
            \A u \in SourcesRead(Def, t) :
                /\ u \in DOMAIN run.m_TaskStates
                /\ StateOf(run.m_TaskStates, u) \in {Succeeded, Skipped}
                /\ waveOf[u] < waveOf[t]

\* C19 as stated: whenever the input resolution of a task reads the output values of
\* a source task, the source is Succeeded or Skipped since an earlier wave; it is
\* never Pending, Running or Failed
C19_SourcesDoneInEarlierWave == [][C19_ResolveStep]_vars

\* the worker of b has read the output values of a, found them empty and failed b,
\* while a is Running in the executor call of the same wave
C19_ReadFromRunningSource ==
    /\ InRun
    /\ run.m_WorkflowId = "cross"
    /\ validateResult = "true"
    /\ "a" \in DOMAIN worker /\ worker["a"] = "exec"
    /\ StateOf(run.m_TaskStates, "a") = Running
    /\ "b" \in DOMAIN worker /\ worker["b"] = "false"
    /\ StateOf(run.m_TaskStates, "b") = Failed
    /\ waveOf["a"] = waveOf["b"]

-----------------------------------------------------------------------------
(* C20: an auto trigger fires once, at its registration *)

\* the events a step hands to the callback
NewlyFired == SubSeq(fired', Len(fired) + 1, Len(fired'))

\* some enabled trigger of the vector carries the ids of the event
FiredBy(triggerVector, event) ==
    \E i \in 1..Len(triggerVector) :
        /\ triggerVector[i].m_IsEnabled
        /\ triggerVector[i].m_WorkflowId = event.m_WorkflowId
        /\ triggerVector[i].m_TriggerId = event.m_TriggerId

C20_EngineStep ==
    probe'.n = probe.n + 1 =>
        /\ Len(fired') >= Len(fired) /\ SubSeq(fired', 1, Len(fired)) = fired
        /\ probe'.fn = "AddAutoTrigger" =>
              /\ NewlyFired = IF probe'.isEnabled
                              THEN <<[m_WorkflowId |-> probe'.workflowId,
                                      m_TriggerId |-> probe'.triggerId]>>
                              ELSE <<>>
              /\ UNCHANGED <<m_CronTriggers, m_FileWatchTriggers, m_ManualTriggers,
                             m_FileWatchIndex>>
        /\ probe'.fn = "Tick" =>
              \A k \in 1..Len(NewlyFired) : FiredBy(m_CronTriggers, NewlyFired[k])
        /\ probe'.fn = "NotifyFileEvent" =>
              \A k \in 1..Len(NewlyFired) : FiredBy(m_FileWatchTriggers, NewlyFired[k])
        /\ probe'.fn = "FireManualTrigger" =>
              \A k \in 1..Len(NewlyFired) : FiredBy(m_ManualTriggers, NewlyFired[k])
        /\ probe'.fn \in {"ClearWorkflowTriggers", "AddCronTrigger", "AddFileWatchTrigger",
                          "AddManualTrigger"} => NewlyFired = <<>>

\* C20: AddAutoTrigger hands exactly one event to the callback within the call if the
\* trigger is enabled and none if it is disabled, and it registers nothing; whatever
\* Tick, NotifyFileEvent and FireManualTrigger fire later is a registered, enabled
\* cron, file-watch or manual trigger, and ClearWorkflowTriggers fires nothing: the
\* auto trigger is not fired again
C20_AutoTriggerFiresOnce == [][C20_EngineStep]_vars

\* the auto trigger of w1 has fired at its registration, and a later Tick has fired
\* the cron trigger t1 and nothing else
C20_AutoThenCron ==
    /\ probe.fn = "Tick"
    /\ fired = <<[m_WorkflowId |-> "w1", m_TriggerId |-> "auto"],
                 [m_WorkflowId |-> "w1", m_TriggerId |-> "t1"]>>

-----------------------------------------------------------------------------
(* C21: the fires of a file-watch trigger are at least its debounce interval apart *)

\* the ids an event of the trigger carries
EventOf(trigger) == [m_WorkflowId |-> trigger.m_WorkflowId, m_TriggerId |-> trigger.m_TriggerId]

\* no other file-watch trigger carries the ids of the trigger at position i
UniqueFileWatch(i) ==
    \A j \in 1..Len(m_FileWatchTriggers) :
        EventOf(m_FileWatchTriggers[j]) = EventOf(m_FileWatchTriggers[i]) => j = i

\* the exact distance now - last_fire is at least the debounce interval
DebounceElapsed(trigger, now) ==
    now - trigger.m_LastFireTime >= trigger.m_DebounceInterval * TicksPerMillisecond

C21_NotifyStep ==
    \A path \in {Lit("a.c"), Lit("a.o")}, ty \in {"Modified", "Deleted"}, now \in 0..MaxTime :
        NotifyFileEvent(path, ty, now) =>
            \A i \in 1..Len(m_FileWatchTriggers) :
                LET f == m_FileWatchTriggers[i]
                    g == m_FileWatchTriggers'[i]
                    times == {k \in 1..Len(NewlyFired) : NewlyFired[k] = EventOf(f)}
                IN UniqueFileWatch(i) =>
                      /\ Cardinality(times) <= 1
                      /\ times # {} =>
                            /\ f.m_HasFiredOnce => DebounceElapsed(f, now)
                            /\ g.m_HasFiredOnce /\ g.m_LastFireTime = now
                      /\ times = {} => g = f

\* C21: m_LastFireTime is the time stamp of the last fire of a trigger (a
\* NotifyFileEvent call that fires it stores its time stamp, one that does not fire it
\* leaves the trigger as it is), a call fires a trigger at most once, and a trigger
\* that has fired before is fired again only by a call whose time stamp is at least
\* the debounce interval after the time stamp of the last fire
C21_DebounceSeparatesFires == [][C21_NotifyStep]_vars

-----------------------------------------------------------------------------
(* C22: which triggers NotifyFileEvent fires, and what it stores *)

\* the condition of the claim for the trigger to fire
ShouldFire(trigger, path, fileEventType, now) ==
    /\ trigger.m_IsEnabled
    /\ trigger.m_WatchedPath = path
    /\ fileEventType \in Range(trigger.m_Events)
    /\ ~trigger.m_HasFiredOnce \/ DebounceElapsed(trigger, now)

C22_NotifyStep ==
    \A path \in {Lit("a.c"), Lit("a.o")}, ty \in {"Modified", "Deleted"}, now \in 0..MaxTime :
        NotifyFileEvent(path, ty, now) =>
            LET positions == SelectSeq([i \in 1..Len(m_FileWatchTriggers) |-> i],
                                       LAMBDA i : ShouldFire(m_FileWatchTriggers[i], path, ty, now))
            IN /\ NewlyFired = [k \in 1..Len(positions) |-> EventOf(m_FileWatchTriggers[positions[k]])]
               /\ m_FileWatchTriggers' =
                      [i \in 1..Len(m_FileWatchTriggers) |->
                          IF ShouldFire(m_FileWatchTriggers[i], path, ty, now)
                          THEN [m_FileWatchTriggers[i] EXCEPT !.m_HasFiredOnce = TRUE,
                                                              !.m_LastFireTime = now]
                          ELSE m_FileWatchTriggers[i]]

\* C22: NotifyFileEvent(path, kind, now) fires exactly the triggers that are enabled,
\* watch exactly this path, list the kind of event, and have never fired or have
\* now - last_fire >= debounce; it stores now as last_fire of the triggers it fires
\* and leaves the others as they are
C22_FiresIffDue == [][C22_NotifyStep]_vars

-----------------------------------------------------------------------------
(* C23: Tick fires the cron triggers that are due, once *)

\* the cron trigger is enabled, its expression is valid and its next_fire has come
CronDue(trigger, now) ==
    trigger.m_IsEnabled /\ trigger.m_Expression.m_IsValid /\ trigger.m_NextFireTime <= now

C23_TickStep ==
    \A now \in 0..MaxTime :
        Tick(now) =>
            LET positions == SelectSeq([i \in 1..Len(m_CronTriggers) |-> i],
                                       LAMBDA i : CronDue(m_CronTriggers[i], now))
            IN /\ NewlyFired = [k \in 1..Len(positions) |-> EventOf(m_CronTriggers[positions[k]])]
               /\ \A i \in 1..Len(m_CronTriggers) :
                     IF CronDue(m_CronTriggers[i], now)
                     THEN /\ m_CronTriggers'[i] =
                                 [m_CronTriggers[i] EXCEPT !.m_NextFireTime =
                                      ComputeNextFireTime(m_CronTriggers[i].m_Expression, now)]
                          /\ ~CronDue(m_CronTriggers'[i], now)
                     ELSE m_CronTriggers'[i] = m_CronTriggers[i]

\* C23: Tick(now) fires exactly the cron triggers that are enabled, valid and have
\* next_fire <= now, each once however long ago next_fire was; it sets next_fire of a
\* trigger it fires to compute_next(now) and the trigger is then not due at now any
\* more, so that a second Tick(now) does not fire it; it leaves the other triggers alone
C23_TickFiresDueOnce == [][C23_TickStep]_vars

-----------------------------------------------------------------------------
(* C24: a cron trigger whose expression never matches is not fired *)

\* no cron trigger registered for another position carries the ids of the one at i
UniqueCron(i) ==
    \A j \in 1..Len(m_CronTriggers) :
        EventOf(m_CronTriggers[j]) = EventOf(m_CronTriggers[i]) => j = i

\* the expression is valid and no minute of the 366 days after the time matches it:
\* compute_next returns its reference time
NeverMatches(expression, referenceTime) ==
    expression.m_IsValid /\ ComputeNextFireTime(expression, referenceTime) = referenceTime

C24_TickStep ==
    \A now \in 0..MaxTime :
        (now >= clock /\ Tick(now)) =>
            \A i \in 1..Len(m_CronTriggers) :
                (UniqueCron(i) /\ NeverMatches(m_CronTriggers[i].m_Expression, clock))
                    => EventOf(m_CronTriggers[i]) \notin Range(NewlyFired)

\* C24: a Tick at or after the time of the registration does not fire a cron trigger
\* whose valid expression matches no minute of the search window
C24_NeverMatchingNotFired == [][C24_TickStep]_vars

-----------------------------------------------------------------------------
(* C25: FireManualTrigger *)

\* an enabled manual trigger with the ids is registered
EnabledManual(workflowId, triggerId) ==
    \E i \in 1..Len(m_ManualTriggers) :
        /\ m_ManualTriggers[i].m_IsEnabled
        /\ m_ManualTriggers[i].m_WorkflowId = workflowId
        /\ m_ManualTriggers[i].m_TriggerId = triggerId

C25_ManualStep ==
    \A w \in WorkflowIds, id \in TriggerIds :
        FireManualTrigger(w, id) =>
            NewlyFired = IF EnabledManual(w, id)
                         THEN <<[m_WorkflowId |-> w, m_TriggerId |-> id]>>
                         ELSE <<>>

\* C25: FireManualTrigger(workflow_id, trigger_id) calls the callback once, with these
\* ids, if an enabled manual trigger with these ids is registered, wherever it stands
\* in the list and however often the ids are registered, and not at all otherwise,
\* whatever cron or file-watch triggers carry the ids
C25_ManualFiresOnceIffEnabled == [][C25_ManualStep]_vars

\* the ids are registered twice, the disabled trigger first, and the call has fired once
C25_DisabledDuplicateFirst ==
    /\ probe.fn = "FireManualTrigger"
    /\ Len(m_ManualTriggers) = 2
    /\ EventOf(m_ManualTriggers[1]) = EventOf(m_ManualTriggers[2])
    /\ ~m_ManualTriggers[1].m_IsEnabled /\ m_ManualTriggers[2].m_IsEnabled
    /\ fired = <<EventOf(m_ManualTriggers[2])>>

-----------------------------------------------------------------------------
(* C26: ClearWorkflowTriggers *)

\* the triggers of the other workflows, in their order
OtherWorkflows(triggerVector, workflowId) ==
    SelectSeq(triggerVector, LAMBDA t : t.m_WorkflowId # workflowId)

\* the events Tick(now) and NotifyFileEvent(path, fileEventType, now) hand to the
\* callback in a state of the engine
TickFires(cronTriggers, now) == TickLoop(cronTriggers, 1, <<>>, now).log

NotifyFires(fileWatchTriggers, fileWatchIndex, path, fileEventType, now) ==
    IF path \notin DOMAIN fileWatchIndex THEN <<>>
    ELSE NotifyLoop(fileWatchTriggers, fileWatchIndex[path], 1, <<>>, fileEventType, now).log

C26_ClearStep ==
    \A w \in WorkflowIds :
        ClearWorkflowTriggers(w) =>
            /\ m_CronTriggers' = OtherWorkflows(m_CronTriggers, w)
            /\ m_FileWatchTriggers' = OtherWorkflows(m_FileWatchTriggers, w)
            /\ m_ManualTriggers' = OtherWorkflows(m_ManualTriggers, w)
            /\ \A now \in 0..MaxTime :
                  TickFires(m_CronTriggers', now) = OtherWorkflows(TickFires(m_CronTriggers, now), w)
            /\ \A path \in {Lit("a.c"), Lit("a.o")}, ty \in {"Modified", "Deleted"}, now \in 0..MaxTime :
                  NotifyFires(m_FileWatchTriggers', m_FileWatchIndex', path, ty, now)
                      = OtherWorkflows(NotifyFires(m_FileWatchTriggers, m_FileWatchIndex,
                                                   path, ty, now), w)
            /\ \A x \in WorkflowIds, id \in TriggerIds :
                  EnabledManual(x, id)' <=> (x # w /\ EnabledManual(x, id))

\* a call that fires hands the callback only events of workflows that have a trigger
\* of the kind registered when the call begins
C26_FireStep ==
    /\ probe'.fn = "Tick" /\ probe'.n = probe.n + 1 =>
          \A k \in 1..Len(NewlyFired) :
              OtherWorkflows(m_CronTriggers, NewlyFired[k].m_WorkflowId) # m_CronTriggers
    /\ probe'.fn = "NotifyFileEvent" /\ probe'.n = probe.n + 1 =>
          \A k \in 1..Len(NewlyFired) :
              OtherWorkflows(m_FileWatchTriggers, NewlyFired[k].m_WorkflowId) # m_FileWatchTriggers
    /\ probe'.fn = "FireManualTrigger" /\ probe'.n = probe.n + 1 =>
          \A k \in 1..Len(NewlyFired) :
              OtherWorkflows(m_ManualTriggers, NewlyFired[k].m_WorkflowId) # m_ManualTriggers

\* C26: ClearWorkflowTriggers(w) leaves no trigger of w registered, and Tick,
\* NotifyFileEvent and FireManualTrigger fire only workflows that have a trigger
\* registered; the triggers of the other workflows stay, in their order and with every
\* field as it was, and each later call fires of them what it would have fired
\* without the clear
C26_ClearRemovesOnlyThatWorkflow == [][C26_ClearStep /\ C26_FireStep]_vars

\* the triggers of one workflow have been cleared, and the file event that follows has
\* fired the file-watch trigger of the other workflow, which is now the only one
C26_OtherWorkflowFiresAfterClear ==
    /\ probe = [fn |-> "NotifyFileEvent", n |-> 2]
    /\ Len(m_CronTriggers) = 1 /\ Len(m_ManualTriggers) = 1
    /\ Len(m_FileWatchTriggers) = 1
    /\ fired = <<EventOf(m_FileWatchTriggers[1])>>

-----------------------------------------------------------------------------
(* C27: the guards of the shell executor *)

\* the string has a control character or one of ; & | > < ' " `
HasForbiddenCharacter(argument) ==
    \E i \in 1..Len(argument) :
        argument[i] \in {"LF", "TAB", "DEL", ";", "&", "|", ">", "<", "'", "QUOT", "BACKTICK"}

\* params.command is a string that begins with "scripts/"
CommandHasPrefix(params) ==
    /\ params.json = "object"
    /\ params.command.kind = "string"
    /\ params.command.value # <<>> /\ Head(params.command.value) = "scripts/"

\* the strings of the args list after the defaulting, when the list is well formed
DefaultedArgs(params) ==
    EnsureDefaultInputOutputArgs(IF params.args.kind = "array"
                                 THEN [i \in 1..Len(params.args.value) |-> params.args.value[i].value]
                                 ELSE <<>>)

ArgsWellFormed(params) ==
    \/ params.args.kind = "absent"
    \/ params.args.kind = "array"
       /\ \A i \in 1..Len(params.args.value) : params.args.value[i].kind = "string"

\* some argument fails the template expansion, or is unsafe once expanded
SomeArgumentRejected(taskDefinition, taskState) ==
    /\ ArgsWellFormed(taskDefinition.m_ParamsJson)
    /\ \E i \in 1..Len(DefaultedArgs(taskDefinition.m_ParamsJson)) :
          LET expanded == ExpandTemplatesStrict(DefaultedArgs(taskDefinition.m_ParamsJson)[i],
                                                taskDefinition, taskState)
          IN ~expanded.ok \/ HasForbiddenCharacter(expanded.out)

\* C27: the shell is called only for a command that begins with "scripts/" and with
\* arguments free of control characters and of ; & | > < ' " `; when the command fails
\* the prefix guard, or an argument fails its expansion or the safety check, the shell
\* is not called, the task is Failed and its output values are as before
C27_ShellGuards ==
    probe.fn = "ShellTaskExecutor::Execute" =>
        LET taskDefinition == m_Workflows["sh"].m_Tasks["t"] IN
        /\ probe.out.invoked =>
              /\ CommandHasPrefix(taskDefinition.m_ParamsJson)
              /\ probe.out.argumentList[1] = taskDefinition.m_ParamsJson.command.value
              /\ \A i \in 2..Len(probe.out.argumentList) :
                    ~HasForbiddenCharacter(probe.out.argumentList[i])
              /\ probe.out.fullCommand = JoinFileList(probe.out.argumentList)
        /\ (\/ ~CommandHasPrefix(taskDefinition.m_ParamsJson)
            \/ SomeArgumentRejected(taskDefinition, probe.before)) =>
              /\ ~probe.out.invoked
              /\ probe.out.taskState.m_State = Failed
              /\ probe.out.taskState.m_OutputValues = probe.before.m_OutputValues

\* the command passes the prefix guard, the argument ${slot.x} expands to a value with
\* a pipe character, and the call is refused by the safety check
C27_ExpandedArgumentRefused ==
    /\ probe.fn = "ShellTaskExecutor::Execute"
    /\ CommandHasPrefix(m_Workflows["sh"].m_Tasks["t"].m_ParamsJson)
    /\ m_Workflows["sh"].m_Tasks["t"].m_ParamsJson.args
          = JsonArray(<<JsonString(InputsMacro), JsonString(<<"${", "slot.", "x", "}">>)>>)
    /\ m_Workflows["sh"].m_Tasks["t"].m_FileInputs = <<Lit("a.c")>>
    /\ probe.before.m_InputValues[Lit("x")] = <<"v", "|">>
    /\ ~probe.out.invoked
    /\ probe.out.taskState.m_LastErrorMessage
          = "ShellTaskExecutor: Argument contains unsupported characters (safety check failed)"

-----------------------------------------------------------------------------
(* C28: the default arguments of the shell executor *)

\* the pattern occurs in the string
Occurs(pattern, string) ==
    \E i \in 1..Len(string) :
        i + Len(pattern) - 1 <= Len(string) /\ SubSeq(string, i, i + Len(pattern) - 1) = pattern

\* C28: "${inputs}" is put in front iff no element has "${inputs}" or "${input[",
\* "${outputs}" is put at the end iff no element has "${outputs}" or "${output[", and
\* the elements of the list stay between them in their order; an empty list gives
\* "${inputs}", "${outputs}"
C28_DefaultArguments ==
    probe.fn = "EnsureDefaultInputOutputArgs" =>
        LET rawArgs == probe.rawArgs
            noInput == \A i \in 1..Len(rawArgs) :
                           ~Occurs(<<"${", "inputs", "}">>, rawArgs[i])
                           /\ ~Occurs(<<"${", "input[">>, rawArgs[i])
            noOutput == \A i \in 1..Len(rawArgs) :
                            ~Occurs(<<"${", "outputs", "}">>, rawArgs[i])
                            /\ ~Occurs(<<"${", "output[">>, rawArgs[i])
        IN /\ probe.result = (IF noInput THEN <<(<<"${", "inputs", "}">>)>> ELSE <<>>) \o rawArgs
                                 \o (IF noOutput THEN <<(<<"${", "outputs", "}">>)>> ELSE <<>>)
           /\ rawArgs = <<>> => probe.result = <<(<<"${", "inputs", "}">>), (<<"${", "outputs", "}">>)>>

\* the list has ${input[0]} and no output template: only "${outputs}" is added, at the end
C28_OnlyOutputsAppended ==
    /\ probe.fn = "EnsureDefaultInputOutputArgs"
    /\ probe.rawArgs = <<Lit("a"), <<"${", "input[", "0", "]", "}">>>>
    /\ probe.result = <<Lit("a"), <<"${", "input[", "0", "]", "}">>, <<"${", "outputs", "}">>>>

-----------------------------------------------------------------------------
(* C29: a file that fails to load is the only one LoadDirectory refuses *)

IsWorkflowFile(entry) == entry.isRegularFile /\ entry.extension = ".jcwf"

\* the file holds a version 1.0 workflow document the parser accepts
IsWellFormed(entry) ==
    /\ entry.canOpen
    /\ entry.content.kind = "object"
    /\ ParseWorkflowJson(entry.content).ok

\* the id a workflow document gives, "" when it gives none
DeclaredId(content) ==
    IF content.kind # "object" THEN ""
    ELSE IF \E i \in 1..Len(content.value) :
               content.value[i].key = "id" /\ content.value[i].value.kind = "string"
    THEN LET i == CHOOSE i \in 1..Len(content.value) :
                      content.value[i].key = "id" /\ content.value[i].value.kind = "string"
         IN  content.value[i].value.value
    ELSE ""

RefusedFiles(entries) ==
    {i \in 1..Len(entries) : IsWorkflowFile(entries[i]) /\ ~IsWellFormed(entries[i])}

\* C29: after LoadDirectory on a directory with exactly one malformed or wrong-version
\* workflow file, whatever the visiting order, the registry holds every well-formed
\* workflow of the directory and does not hold the refused one.
C29_OnlyBadFileRefused ==
    (/\ probe.fn = "WorkflowRegistry::LoadDirectory"
     /\ probe.directory.exists
     /\ Cardinality(RefusedFiles(probe.directory.entries)) = 1)
    => LET entries == probe.directory.entries IN
       \A i \in 1..Len(entries) :
          IF ~IsWorkflowFile(entries[i]) THEN TRUE
          ELSE IF IsWellFormed(entries[i])
          THEN DeclaredId(entries[i].content) \in DOMAIN m_Workflows
          ELSE DeclaredId(entries[i].content) \notin DOMAIN m_Workflows

-----------------------------------------------------------------------------
(* C30: a workflow that declares no triggers gets the Auto trigger *)

\* the document has no "triggers" key, or only empty "triggers" lists
DeclaresNoTriggers(content) ==
    /\ content.kind = "object"
    /\ \A i \in 1..Len(content.value) :
          content.value[i].key = "triggers"
          => /\ content.value[i].value.kind = "array"
             /\ Len(content.value[i].value.value) = 0

\* C30: every successfully parsed workflow that declares no triggers, by leaving out the
\* "triggers" key or by giving an empty list, has exactly one trigger: Auto, id "auto",
\* enabled; so every parsed workflow has at least one trigger.
C30_NoTriggersMeansAuto ==
    (/\ probe.fn = "WorkflowJsonParser::ParseWorkflowJson"
     /\ probe.out.ok)
    => /\ DeclaresNoTriggers(probe.jsonContent)
          => probe.out.definition.m_Triggers = <<AutoTrigger>>
       /\ Len(probe.out.definition.m_Triggers) >= 1

-----------------------------------------------------------------------------
(* C31: the run state of a stored run *)

\* the run of the call that has just returned failed a task or found no task to run
\* while some were not terminal
RunFailedOrDeadlocked(r) ==
    \/ \E t \in DOMAIN r.m_TaskStates : r.m_TaskStates[t].m_State = Failed
    \/ \E t \in DOMAIN r.m_TaskStates : r.m_TaskStates[t].m_State \notin Terminal

\* C31: every run in the last-run cache carries a terminal run state: Failed if a task
\* failed or the run deadlocked, Succeeded otherwise; never Pending or Running.
C31_StoredRunStateTerminal ==
    \A w \in DOMAIN m_LastRuns :
        m_LastRuns[w].m_State =
            IF RunFailedOrDeadlocked(m_LastRuns[w]) THEN "Failed" ELSE "Succeeded"

-----------------------------------------------------------------------------
(* C32: a failed task carries its error message *)

\* C32: every task that is Failed when its run completes has a non-empty last error,
\* whatever made it fail.
C32_FailedTasksCarryError ==
    \A w \in DOMAIN m_LastRuns :
        \A t \in DOMAIN m_LastRuns[w].m_TaskStates :
            m_LastRuns[w].m_TaskStates[t].m_State = Failed
            => m_LastRuns[w].m_TaskStates[t].m_LastErrorMessage # ""

-----------------------------------------------------------------------------
(* C33: validation reports, it never raises *)

\* some depends_on entry of the registry names a task its workflow does not have
SomeDependencyUnknown ==
    \E w \in DOMAIN m_Workflows : \E t \in DOMAIN m_Workflows[w].m_Tasks :
        \E i \in 1..Len(m_Workflows[w].m_Tasks[t].m_DependsOn) :
            m_Workflows[w].m_Tasks[t].m_DependsOn[i] \notin DOMAIN m_Workflows[w].m_Tasks

\* C33: ValidateAll completes without an exception for every registry content, and
\* returns false when a depends_on entry names a task that does not exist.
C33_ValidationNeverFatal ==
    /\ validateResult # "throws"
    /\ pc # "crashed"
    /\ (validateResult # "none" /\ SomeDependencyUnknown) => validateResult = "false"

-----------------------------------------------------------------------------
(* C34: the states of a task within one run *)

TaskTransitions ==
    {<<Pending, Running>>, <<Running, Succeeded>>, <<Running, Failed>>,
     <<Pending, Skipped>>, <<Pending, Failed>>}

\* the position of the pool worker of a task: queued, in the executor, returned
WorkerRank(position) ==
    IF position = "queued" THEN 1 ELSE IF position = "exec" THEN 2 ELSE 3

\* a step of the run in progress: the task states before it and after it (those of the
\* stored run when the step completes the run)
C34_RunStep ==
    LET after == IF run'.m_WorkflowId = run.m_WorkflowId THEN run'.m_TaskStates
                 ELSE lastCall'.run.m_TaskStates
    IN
    \A t \in DOMAIN run.m_TaskStates :
        /\ t \in DOMAIN after
        /\ after[t].m_State # run.m_TaskStates[t].m_State
           => <<run.m_TaskStates[t].m_State, after[t].m_State>> \in TaskTransitions
        /\ after[t].m_AttemptCount <= 1
        /\ after[t].m_AttemptCount >= run.m_TaskStates[t].m_AttemptCount
        \* the executor: entered from the queue only, and never entered again
        /\ (t \in DOMAIN worker /\ run'.m_WorkflowId = run.m_WorkflowId)
           => /\ t \in DOMAIN worker'
              /\ WorkerRank(worker'[t]) >= WorkerRank(worker[t])
        /\ (t \notin DOMAIN worker /\ t \in DOMAIN worker')
           => worker'[t] = "queued" /\ run.m_TaskStates[t].m_State = Pending

-----------------------------------------------------------------------------
(* C35: who counts the attempt *)

\* C35 as stated: a task observed in state Running has an attempt count of at least 1,
\* the driver having counted the attempt before it submitted the task.
C35_RunningHasAttempt ==
    \A t \in DOMAIN run.m_TaskStates :
        run.m_TaskStates[t].m_State = Running => run.m_TaskStates[t].m_AttemptCount >= 1

\* C35: the attempt is counted by the pool worker when it enters ExecuteTaskInstance,
\* not by the driver: a submitted task is Running with attempt count 0 until its
\* worker starts and has attempt count 1 from then on; a task never submitted has
\* attempt count 0, and in a completed run every task that ran has attempt count
\* exactly 1.
C35_AttemptCountedByWorker ==
    /\ \A t \in DOMAIN run.m_TaskStates :
          run.m_TaskStates[t].m_AttemptCount =
              IF t \in DOMAIN worker /\ worker[t] # "queued" THEN 1 ELSE 0
    /\ \A t \in DOMAIN worker :
          worker[t] = "queued" => run.m_TaskStates[t].m_State = Running
    /\ \A w \in DOMAIN m_LastRuns : \A t \in DOMAIN m_LastRuns[w].m_TaskStates :
          m_LastRuns[w].m_TaskStates[t].m_AttemptCount =
              IF m_LastRuns[w].m_TaskStates[t].m_State \in {Succeeded, Failed} THEN 1 ELSE 0

\* C35 witness: of two tasks submitted in one wave, one is still queued, Running with
\* attempt count 0, while the worker of the other has returned with attempt count 1
C35_QueuedBesideFinished ==
    \E t, u \in DOMAIN worker :
        /\ worker[t] = "queued"
        /\ run.m_TaskStates[t].m_State = Running
        /\ run.m_TaskStates[t].m_AttemptCount = 0
        /\ worker[u] \in {"true", "false"}
        /\ waveOf[u] = waveOf[t]
        /\ run.m_TaskStates[u].m_AttemptCount = 1

-----------------------------------------------------------------------------
(* C36: the dependents of a failed task *)

\* the tasks of wf that depend on a task of S, directly or through other tasks
RECURSIVE DependentsOf(_, _)
DependentsOf(wf, S) ==
    LET more == {d \in DOMAIN wf.m_Tasks :
                    \E i \in 1..Len(wf.m_Tasks[d].m_DependsOn) : wf.m_Tasks[d].m_DependsOn[i] \in S}
    IN  IF more \subseteq S THEN S ELSE DependentsOf(wf, S \cup more)

TransitiveDependents(wf, t) ==
    {d \in DependentsOf(wf, {t}) :
        d # t \/ \E i \in 1..Len(wf.m_Tasks[t].m_DependsOn) :
                    wf.m_Tasks[t].m_DependsOn[i] \in DependentsOf(wf, {t})}

\* while a run is in progress, the dependents of a task that has failed are Pending
\* and have never been handed to the pool
C36_DependentsHeldBack ==
    \A t \in DOMAIN run.m_TaskStates :
        run.m_TaskStates[t].m_State = Failed
        => \A d \in TransitiveDependents(Def, t) :
              /\ run.m_TaskStates[d].m_State = Pending
              /\ run.m_TaskStates[d].m_AttemptCount = 0
              /\ d \notin DOMAIN worker

\* the step that completes a run with a failed task: its dependents are still Pending,
\* the run is marked failed, the call returns false, and the tasks submitted in the
\* wave of the failed task have each reached Succeeded or Failed
C36_CompletionStep ==
    (run.m_WorkflowId # "" /\ run'.m_WorkflowId = "")
    => LET final == lastCall'.run.m_TaskStates IN
       \A t \in DOMAIN final :
           final[t].m_State = Failed
           => /\ \A d \in TransitiveDependents(Def, t) :
                    final[d].m_State = Pending /\ final[d].m_AttemptCount = 0
              /\ lastCall'.run.m_HasFailed
              /\ ~lastCall'.result
              /\ \A u \in DOMAIN final :
                    (waveOf[u] = waveOf[t] /\ waveOf[u] > 0)
                    => final[u].m_State \in {Succeeded, Failed} /\ final[u].m_AttemptCount = 1

\* C36: if a task ends Failed, every task depending on it directly or transitively is
\* never dispatched and never Skipped, it is Pending when the run completes; the run is
\* marked failed and RunWorkflowOnce returns false; the tasks submitted in the wave of
\* the failed task are not cancelled, each reaches its own terminal state.
C36_FailureHoldsDependentsOnly == []C36_DependentsHeldBack /\ [][C36_CompletionStep]_vars

\* C36 witness: a call has returned false with a failed task, a task of the same wave
\* that succeeded, and their dependent still Pending
C36_SiblingSucceededDependentPending ==
    /\ lastCall.known /\ ~lastCall.result /\ lastCall.wf = "par"
    /\ lastCall.run.m_TaskStates["p"].m_State = Failed
    /\ lastCall.run.m_TaskStates["q"].m_State = Succeeded
    /\ lastCall.run.m_TaskStates["r"].m_State = Pending

-----------------------------------------------------------------------------
(* C37: a task without inputs and without dependencies *)

\* C37: a task that declares no file inputs and has no depends_on is never reported up
\* to date by the freshness check, even when all its output files exist.
C37_NoInputsNeverUpToDate ==
    probe.fn = "IsTaskUpToDate"
    => LET task == m_Workflows["fresh"].m_Tasks[probe.task] IN
       (task.m_FileInputs = <<>> /\ task.m_DependsOn = <<>>) => ~probe.result

-----------------------------------------------------------------------------
(* The agent: the trigger engine and the orchestrator driven by Core::Run, with the
   callback of InitializeWorkflows between them *)

MaxAgentCalls == 2   \* engine calls of the driver in one behaviour

\* variant of DriverBetweenCalls for a callback that returns before its run has ended
DriverBesideRun == probe.n < MaxAgentCalls /\ callCount <= Len(fired)

\* the driver thread is outside every engine call, in RegisterAll or in the loop of
\* Core::Run: each event handed to the callback has had its RunWorkflowOnce return
DriverBetweenCalls == probe.n < MaxAgentCalls /\ pc = "idle" /\ callCount = Len(fired)

\* m_TriggerCallback, the lambda of InitializeWorkflows: RunWorkflowOnce of the event's
\* workflow on the thread that called the engine; the events of one engine call are
\* served in the order FireTrigger was called
TriggerCallback ==
    /\ callCount < Len(fired)
    /\ RunWorkflowOnce(fired[callCount + 1].m_WorkflowId, Len(fired))

\* the agent at the end of InitializeWorkflows for the workflows "build" and "par":
\* a cron trigger of "build", file-watch triggers of both workflows on a.c and a manual
\* trigger of "par" are bound, the auto triggers are still to come
InitAgent ==
    /\ m_Workflows = RegistryOf({WfBuild, WfPar})
    /\ InitOrchestrator
    /\ mtime = [p \in Files |-> IF p = Lit("a.c") THEN 1 ELSE 0]
    /\ clock = 1
    /\ m_CronTriggers =
           <<[m_WorkflowId |-> "build", m_TriggerId |-> "t1",
              m_Expression |-> Parse(<<Star, Star, Star, Star, Star>>),
              m_NextFireTime |-> ComputeNextFireTime(Parse(<<Star, Star, Star, Star, Star>>), 1),
              m_IsEnabled |-> TRUE]>>
    /\ m_FileWatchTriggers =
           [i \in 1..2 |->
               [m_WorkflowId |-> <<"par", "build">>[i], m_TriggerId |-> "t1",
                m_WatchedPath |-> Lit("a.c"), m_Events |-> <<"Created", "Modified">>,
                m_DebounceInterval |-> 1, m_LastFireTime |-> 0, m_HasFiredOnce |-> FALSE,
                m_IsEnabled |-> TRUE]]
    /\ m_ManualTriggers = <<[m_WorkflowId |-> "par", m_TriggerId |-> "t1", m_IsEnabled |-> TRUE]>>
    /\ m_FileWatchIndex = RebuildIndex(m_FileWatchTriggers)

\* InitializeWorkflows up to RegisterAll, then RegisterAll (AddAutoTrigger) and the loop
\* of Core::Run: OnUpdate calls Tick, OnEvent calls NotifyFileEvent; FireManualTrigger
\* is the entry point left to a user interface
NextAgent ==
    \/ InitializeWorkflows
    \/ DriverBetweenCalls /\ \E w \in DOMAIN m_Workflows : AddAutoTrigger(w, "auto", TRUE)
    \/ DriverBetweenCalls /\ \E now \in 0..MaxTime : Tick(now)
    \/ DriverBetweenCalls /\ \E ty \in {"Modified", "Deleted"}, now \in 0..MaxTime :
                                NotifyFileEvent(Lit("a.c"), ty, now)
    \/ DriverBetweenCalls /\ FireManualTrigger("par", "t1")
    \/ TriggerCallback
    \/ ScanTask
    \/ ScanEnd
    \/ SubmitTask
    \/ \E t \in DOMAIN worker : WorkerStart(t)
    \/ \E t \in DOMAIN worker : WorkerExec(t)
    \/ JoinTask

SpecAgent == InitAgent /\ [][NextAgent]_vars

-----------------------------------------------------------------------------
(* C38: engine calls and runs are serialized on the driver thread *)

\* no RunWorkflowOnce is in progress and no pool worker holds a task
NoRunInProgress == pc = "idle" /\ run = WorkflowRun /\ worker = EmptyMap

\* between two calls, the most recent call is the one of the most recent fire, and a
\* known workflow has its completed run in the last-run cache
C38_FiresServed ==
    (pc = "idle" /\ callCount > 0)
    => /\ lastCall.wf = fired[callCount].m_WorkflowId
       /\ lastCall.known
          => /\ lastCall.run.m_IsCompleted
             /\ lastCall.wf \in DOMAIN m_LastRuns
             /\ m_LastRuns[lastCall.wf] = lastCall.run

C38_Step ==
    \* an engine call begins only after every earlier fire has had its run return
    /\ probe'.n # probe.n => NoRunInProgress /\ callCount = Len(fired)
    \* a run begins only when no other is in progress, for the oldest fire not yet served
    /\ callCount' # callCount
       => /\ NoRunInProgress
          /\ callCount' = callCount + 1 /\ callCount' <= Len(fired)
          /\ fired[callCount'].m_WorkflowId \in DOMAIN m_Workflows
             => run'.m_WorkflowId = fired[callCount'].m_WorkflowId
    \* the cache is written by the driver step that completes the run in progress, for
    \* the workflow of that run only, when every worker of the run has returned
    /\ m_LastRuns' # m_LastRuns
       => /\ pc \notin {"idle", "boot"} /\ pc' = "idle"
          /\ \A t \in DOMAIN worker : worker[t] \in {"true", "false", "exception"}
          /\ DOMAIN m_LastRuns' = DOMAIN m_LastRuns \cup {run.m_WorkflowId}
          /\ m_LastRuns'[run.m_WorkflowId].m_RunId = run.m_RunId
          /\ \A w \in DOMAIN m_LastRuns : w # run.m_WorkflowId => m_LastRuns'[w] = m_LastRuns[w]

\* C38: the trigger engine and the runs it starts are serialized on the driver thread:
\* every fire (AddAutoTrigger, Tick, NotifyFileEvent, FireManualTrigger) has its
\* RunWorkflowOnce run to completion before the engine call returns, so the next engine
\* call and the next run begin only when no run is in progress, and the last-run cache
\* is written once per run, by the step that completes it.
C38_SerializedOnDriver == []C38_FiresServed /\ [][C38_Step]_vars

\* C38 witness: one NotifyFileEvent has fired two triggers; the run of the first is in
\* the cache and a pool worker executes a task of the second
C38_SecondRunOfOneCall ==
    /\ probe.fn = "NotifyFileEvent" /\ probe.n = 1
    /\ Len(fired) = 2 /\ callCount = 2
    /\ fired[1].m_WorkflowId \in DOMAIN m_LastRuns
    /\ run.m_WorkflowId = fired[2].m_WorkflowId
    /\ \E t \in DOMAIN worker : worker[t] = "exec"

-----------------------------------------------------------------------------
(* C39: the file-watch index and the file-watch vector *)

\* the positions of the file-watch vector whose trigger watches the path
WatchersOf(path) ==
    {i \in 1..Len(m_FileWatchTriggers) : m_FileWatchTriggers[i].m_WatchedPath = path}

\* each path of the index, and each watched path, is mapped to the positions of its
\* watchers, each position once
C39_IndexMatchesVector ==
    /\ \A i \in 1..Len(m_FileWatchTriggers) :
          m_FileWatchTriggers[i].m_WatchedPath \in DOMAIN m_FileWatchIndex
    /\ \A path \in DOMAIN m_FileWatchIndex :
          /\ Range(m_FileWatchIndex[path]) = WatchersOf(path)
          /\ Len(m_FileWatchIndex[path]) = Cardinality(WatchersOf(path))
          /\ \A k \in 1..Len(m_FileWatchIndex[path]) :
                m_FileWatchIndex[path][k] <= Len(m_FileWatchTriggers)

\* the triggers whose fire state a step has changed
Touched == {i \in 1..Len(m_FileWatchTriggers) : m_FileWatchTriggers'[i] # m_FileWatchTriggers[i]}

\* the enabled watchers of the path that may have handed the event to the callback
WatchersFiredBy(path, event) ==
    {i \in WatchersOf(path) : /\ m_FileWatchTriggers[i].m_IsEnabled
                              /\ m_FileWatchTriggers[i].m_WorkflowId = event.m_WorkflowId
                              /\ m_FileWatchTriggers[i].m_TriggerId = event.m_TriggerId}

\* a NotifyFileEvent step that fires does so for the watchers of one path only, each at
\* most once, and for every enabled watcher of that path that listens to the same
\* events as one that fired and has never fired itself (no debounce applies to it)
C39_NotifyStep ==
    (probe'.fn = "NotifyFileEvent" /\ probe'.n # probe.n /\ fired' # fired)
    => /\ Len(m_FileWatchTriggers') = Len(m_FileWatchTriggers)
       /\ \E path \in DOMAIN m_FileWatchIndex :
             /\ Touched \subseteq WatchersOf(path)
             /\ Len(fired') - Len(fired) <= Cardinality(WatchersOf(path))
             /\ \A k \in (Len(fired) + 1)..Len(fired') :
                   /\ WatchersFiredBy(path, fired'[k]) # {}
                   /\ \A i \in WatchersFiredBy(path, fired'[k]), j \in WatchersOf(path) :
                         ( /\ m_FileWatchTriggers[j].m_Events = m_FileWatchTriggers[i].m_Events
                           /\ m_FileWatchTriggers[j].m_IsEnabled
                           /\ ~m_FileWatchTriggers[j].m_HasFiredOnce )
                         => m_FileWatchTriggers'[j].m_HasFiredOnce

\* C39: after any sequence of AddFileWatchTrigger and ClearWorkflowTriggers calls the
\* path index maps each path to exactly the positions of the file-watch vector whose
\* trigger watches that path, each position once and within the vector; hence
\* NotifyFileEvent considers every registered trigger of the path and none of another.
C39_IndexConsistent == []C39_IndexMatchesVector /\ [][C39_NotifyStep]_vars

\* C39 witness: ClearWorkflowTriggers has removed one of two file-watch triggers and
\* the index has been rebuilt for the one that remains
C39_IndexRebuiltAfterClear ==
    /\ probe.fn = "ClearWorkflowTriggers" /\ probe.n = MaxCalls
    /\ m_CronTriggers = <<>> /\ m_ManualTriggers = <<>>
    /\ Len(m_FileWatchTriggers) = 1
    /\ m_FileWatchIndex = (m_FileWatchTriggers[1].m_WatchedPath :> <<1>>)

-----------------------------------------------------------------------------
(* C40: the command line handed to the shell *)

\* C40: for every params.command that passes the "scripts/" prefix guard and every
\* args list, the complete command line handed to std::system (the command path joined
\* with the expanded arguments) has no control character and none of ; & | > < ' " `.
C40_CommandLineClean ==
    (probe.fn = "ShellTaskExecutor::Execute" /\ probe.out.invoked)
    => ~HasForbiddenCharacter(probe.out.fullCommand)

====
